---------------------------- MODULE Spec2Model ----------------------------
(***************************************************************************)
(* Model of the document extraction pipeline of test-document-parse-api:   *)
(* the response parser (app/services/openai_service.py) and the scorer,    *)
(* combiner and multi-page orchestrator (app/services/                     *)
(* document_processor.py).                                                 *)
(*                                                                         *)
(* Encoding of Python values.                                              *)
(*   - A str is a sequence of text atoms; the atom " " is whitespace and   *)
(*     the literal messages of the code are one atom each.  Concatenation  *)
(*     is \o, str.strip() is Strip.                                        *)
(*   - A JSON / dict value is a tagged record [t, s]: t is "str" with the   *)
(*     text s, or "null" (None).                                           *)
(*   - A dict is a function from a set of keys to values.                  *)
(*   - An Optional[str] is [some, text].                                   *)
(*   - A call either returns or raises: [kind, val, err].                  *)
(***************************************************************************)
EXTENDS Integers, Sequences, FiniteSets, TLC

VARIABLES
    \* inputs and outputs of one call of _parse_extraction_response
    response, parseOut,
    \* the scorer / combiner calls: the records as given, the same list as the
    \* calls leave it, the outcome of _combine_results, the outcomes of the
    \* score / is_good calls in call order
    given, results, callOut, callLog,
    \* one run of DocumentProcessor.process_document
    filename,       \* the file name, a sequence of text atoms
    doc,            \* the file content as PyMuPDF sees it
    pc,             \* where the run stands
    text_content,   \* _process_pdf: the concatenated text layer
    images,         \* _extract_from_images: the rendered pages
    all_results,    \* the page records collected by the current path
    batch_start,    \* _extract_from_images_parallel: start of the batch
    tasks,          \* the tasks of the batch handed to asyncio.gather
    seq_page,       \* _extract_from_images_sequential: the page at hand
    calls,          \* the requests sent to the AI service, in order
    caught,         \* the exception an except clause turned into a record
    ret,            \* what process_document gave its caller
    collected,      \* every page record appended to an all_results, as appended
    ai_response,    \* how the latest request to the AI service ended
    timeouts,       \* the batches (by batch_start) whose 120 s ran out
    \* the document endpoints (api/v1/documents.py)
    documents,      \* the rows of the documents table, by document id
    requests,       \* the extraction runs that have not ended, oldest first
    extraction_rate_limit,  \* user id -> time of the last admitted request
    now,            \* time.time(), in seconds
    invoked         \* user id -> the times of the user's manual requests that
                    \* called process_document

parserVars == <<response, parseOut>>
scorerVars == <<given, results, callOut, callLog>>
inputVars == <<filename, doc>>
runVars == <<pc, text_content, images, all_results, batch_start, tasks,
             seq_page, calls, caught, ret, collected, ai_response, timeouts>>

serviceVars == <<documents, requests, extraction_rate_limit, now, invoked>>

vars == <<parserVars, scorerVars, inputVars, runVars, serviceVars>>

(***************************************************************************)
(* Bounds of the model.                                                    *)
(***************************************************************************)
\* longest raw response enumerated token by token
MaxRespLen == 5
\* longest list of page records handed to _combine_results
MaxResults == 3
\* calls of the scorer on one record
MaxCalls == 2
\* most pages of a PDF
MaxPages == 3

(***************************************************************************)
(* str                                                                     *)
(***************************************************************************)
WS == " "

NotFoundText == <<"Not Found">>

RECURSIVE LStrip(_)
LStrip(s) == IF s # <<>> /\ Head(s) = WS THEN LStrip(Tail(s)) ELSE s

RECURSIVE RStrip(_)
RStrip(s) ==
    IF s # <<>> /\ s[Len(s)] = WS THEN RStrip(SubSeq(s, 1, Len(s) - 1)) ELSE s

\* no stripping: the text as it is
NoStrip(s) == s

\* str.strip()
Strip(s) == RStrip(LStrip(s))

Digit == <<"0", "1", "2", "3", "4", "5", "6", "7", "8", "9">>

\* str(n) of a natural number, as f"{len(results)}" formats it
RECURSIVE IntToStr(_)
IntToStr(n) ==
    IF n < 10 THEN <<Digit[n + 1]>>
    ELSE IntToStr(n \div 10) \o <<Digit[(n % 10) + 1]>>

(***************************************************************************)
(* dict values                                                             *)
(***************************************************************************)
Str(s) == [t |-> "str", s |-> s]
Null == [t |-> "null", s |-> <<>>]

NotFound == Str(NotFoundText)

required_fields == <<"patient_first_name", "patient_last_name", "patient_dob">>

Required == {required_fields[i] : i \in 1..Len(required_fields)}

Keys == Required \cup {"confidence", "notes"}

\* dict.get(key, default)
Get(d, key, default) == IF key \in DOMAIN d THEN d[key] ELSE default

\* d[key] = value
Put(d, key, value) == [k \in (DOMAIN d) \cup {key} |-> IF k = key THEN value ELSE d[k]]

EmptyDict == [k \in {} |-> Null]

(***************************************************************************)
(* Outcome of a call                                                       *)
(***************************************************************************)
Return(v) == [kind |-> "return", val |-> v, err |-> <<>>]
Raise(e) == [kind |-> "raise", val |-> EmptyDict, err |-> e]
NotCalled == [kind |-> "none", val |-> EmptyDict, err |-> <<>>]

(***************************************************************************)
(* Raw responses of the AI service: a sequence of lexical tokens.          *)
(*   "{"  "}"  ","   the JSON punctuation                                  *)
(*   "ws"            whitespace / newline                                  *)
(*   "text"          any other text outside a JSON string                  *)
(*   "member"        the text  "key": value  of one object member          *)
(***************************************************************************)
Punct(t) == [t |-> t, k |-> "", v |-> Null]
LB == Punct("{")
RB == Punct("}")
COMMA == Punct(",")
WSP == Punct("ws")
TEXT == Punct("text")
Member(k, v) == [t |-> "member", k |-> k, v |-> v]

Some(text) == [some |-> TRUE, text |-> text]
None == [some |-> FALSE, text |-> <<>>]

\* a non-greedy pattern r'\{.*?\}': from the first "{" to the first "}" after it
JsonMatchLazy(text) ==
    LET opens == {i \in 1..Len(text) : text[i] = LB}
    IN  IF opens = {} THEN <<>>
        ELSE LET first == CHOOSE i \in opens : \A j \in opens : i <= j
                 closes == {i \in (first + 1)..Len(text) : text[i] = RB}
             IN  IF closes = {} THEN <<>>
                 ELSE SubSeq(text, first, CHOOSE i \in closes : \A j \in closes : i <= j)

\* re.search(r'\{.*\}', response, re.DOTALL).group(): from the first "{" to
\* the last "}" after it; <<>> when there is no match
JsonMatch(text) ==
    LET opens == {i \in 1..Len(text) : text[i] = LB}
        closes == {i \in 1..Len(text) : text[i] = RB}
    IN  IF opens = {} \/ closes = {} THEN <<>>
        ELSE LET first == CHOOSE i \in opens : \A j \in opens : i <= j
                 last == CHOOSE i \in closes : \A j \in closes : j <= i
             IN  IF first < last THEN SubSeq(text, first, last) ELSE <<>>

\* the tokens of a text with its whitespace dropped, as the JSON scanner skips it
RECURSIVE SkipWs(_)
SkipWs(toks) ==
    IF toks = <<>> THEN <<>>
    ELSE IF Head(toks) = WSP THEN SkipWs(Tail(toks))
    ELSE <<Head(toks)>> \o SkipWs(Tail(toks))

\* members separated by commas: member ("," member)*
RECURSIVE IsMemberList(_)
IsMemberList(toks) ==
    /\ toks # <<>>
    /\ Head(toks).t = "member"
    /\ \/ Len(toks) = 1
       \/ /\ Len(toks) >= 3
          /\ toks[2] = COMMA
          /\ IsMemberList(SubSeq(toks, 3, Len(toks)))

\* whether json.loads accepts the text: "{" [member ("," member)*] "}"
JsonValid(text) ==
    LET toks == SkipWs(text)
    IN  /\ Len(toks) >= 2
        /\ toks[1] = LB
        /\ toks[Len(toks)] = RB
        /\ \/ Len(toks) = 2
           \/ IsMemberList(SubSeq(toks, 2, Len(toks) - 1))

\* the dict json.loads builds: members left to right, a repeated key keeps
\* its last value
RECURSIVE JsonDict(_, _)
JsonDict(toks, d) ==
    IF toks = <<>> THEN d
    ELSE IF Head(toks).t = "member"
         THEN JsonDict(Tail(toks), Put(d, Head(toks).k, Head(toks).v))
         ELSE JsonDict(Tail(toks), d)

JsonLoads(text) == JsonDict(text, EmptyDict)

FallbackRecord ==
    [k \in Keys |->
        IF k \in Required THEN NotFound
        ELSE IF k = "confidence" THEN Str(<<"low">>)
        ELSE Str(<<"Used fallback parsing method">>)]

\* response.lower() raises on None; every other response gives the fixed record
_fallback_parsing(resp) ==
    IF ~resp.some THEN Raise(<<"'NoneType' object has no attribute 'lower'">>)
    ELSE Return(FallbackRecord)

\* a default for every falsy value: if not data.get(field): data[field] = "Not Found"
RECURSIVE FillRequiredFalsy(_, _)
FillRequiredFalsy(data, i) ==
    IF i > Len(required_fields) THEN data
    ELSE FillRequiredFalsy(
            IF \/ required_fields[i] \notin DOMAIN data
               \/ data[required_fields[i]] \in {Null, Str(<<>>)}
            THEN Put(data, required_fields[i], NotFound)
            ELSE data,
            i + 1)

\* for field in required_fields: if field not in data: data[field] = "Not Found"
RECURSIVE FillRequired(_, _)
FillRequired(data, i) ==
    IF i > Len(required_fields) THEN data
    ELSE FillRequired(
            IF required_fields[i] \notin DOMAIN data
            THEN Put(data, required_fields[i], NotFound)
            ELSE data,
            i + 1)

_parse_extraction_response(resp) ==
    IF ~resp.some
    THEN \* re.search raises TypeError, handled by except Exception
         _fallback_parsing(resp)
    ELSE LET json_str == JsonMatch(resp.text)
         IN  IF json_str # <<>>
             THEN IF JsonValid(json_str)
                  THEN Return(FillRequired(JsonLoads(json_str), 1))
                  ELSE \* json.JSONDecodeError
                       _fallback_parsing(resp)
             ELSE _fallback_parsing(resp)

(***************************************************************************)
(* Completeness scorer and combiner (document_processor.py).  A Python     *)
(* function that takes a dict may change it: each call is modelled by its  *)
(* outcome together with its argument as the call leaves it.               *)
(***************************************************************************)
IntReturn(n) == [kind |-> "return", n |-> n, err |-> <<>>]
IntRaise(e) == [kind |-> "raise", n |-> 0, err |-> e]

\* value.strip() exists for a str only
IsStr(value) == value.t = "str"

\* the loop without the strip: if value != "Not Found" and value
RECURSIVE ScoreLoopNoStrip(_, _, _)
ScoreLoopNoStrip(result, i, score) ==
    IF i > Len(required_fields) THEN IntReturn(score)
    ELSE LET value == Get(result, required_fields[i], NotFound)
         IN  IF value # NotFound /\ value # Null /\ value.s # <<>>
             THEN ScoreLoopNoStrip(result, i + 1, score + 1)
             ELSE ScoreLoopNoStrip(result, i + 1, score)

\* the loop of _calculate_completeness_score from field i on, score so far
RECURSIVE ScoreLoop(_, _, _)
ScoreLoop(result, i, score) ==
    IF i > Len(required_fields) THEN IntReturn(score)
    ELSE LET value == Get(result, required_fields[i], NotFound)
         IN  IF value # NotFound
             THEN IF ~IsStr(value) THEN IntRaise(<<"object has no attribute 'strip'">>)
                  ELSE IF Strip(value.s) # <<>>
                       THEN ScoreLoop(result, i + 1, score + 1)
                       ELSE ScoreLoop(result, i + 1, score)
             ELSE ScoreLoop(result, i + 1, score)

_calculate_completeness_score(result) == ScoreLoop(result, 1, 0)

\* _calculate_completeness_score only reads its argument
CalculateCompletenessScoreCall(result) ==
    [out |-> _calculate_completeness_score(result), arg |-> result]

BoolReturn(b) == [kind |-> "return", b |-> b, err |-> <<>>]
BoolRaise(e) == [kind |-> "raise", b |-> FALSE, err |-> e]

\* the gate without the confidence: if score >= 2
_is_good_result_any_two(result) ==
    LET score == _calculate_completeness_score(result)
    IN  IF score.kind = "raise" THEN BoolRaise(score.err)
        ELSE BoolReturn(score.n >= 2)

_is_good_result(result) ==
    LET score == _calculate_completeness_score(result)
        confidence == Get(result, "confidence", Str(<<"low">>))
    IN  IF score.kind = "raise" THEN BoolRaise(score.err)
        ELSE IF score.n >= 2 /\ confidence = Str(<<"high">>) THEN BoolReturn(TRUE)
        ELSE IF score.n >= 3 THEN BoolReturn(TRUE)
        ELSE BoolReturn(FALSE)

\* _is_good_result only reads its argument
IsGoodResultCall(result) == [out |-> _is_good_result(result), arg |-> result]

\* the text an f-string puts for a dict value
Format(value) ==
    IF value.t = "null" THEN <<"None">> ELSE value.s

\* _get_fallback_result
_get_fallback_result(error_message) ==
    [k \in Keys |->
        IF k \in Required THEN NotFound
        ELSE IF k = "confidence" THEN Str(<<"low">>)
        ELSE Str(<<"Processing failed: ">> \o error_message)]

\* the empty list answered through _get_fallback_result
EmptyCombinedAsFallback == _get_fallback_result(<<"No data extracted from any page">>)

EmptyCombined ==
    [k \in Keys |->
        IF k \in Required THEN NotFound
        ELSE IF k = "confidence" THEN Str(<<"low">>)
        ELSE Str(<<"No data extracted from any page">>)]

\* the loop with score >= best_score: the last of the best wins
RECURSIVE BestLoopLastWins(_, _, _, _)
BestLoopLastWins(rs, i, best, best_score) ==
    IF i > Len(rs) THEN [kind |-> "return", best |-> best]
    ELSE LET score == _calculate_completeness_score(rs[i])
         IN  IF score.kind = "raise" THEN [kind |-> "raise", best |-> best]
             ELSE IF score.n >= best_score
                  THEN BestLoopLastWins(rs, i + 1, i, score.n)
                  ELSE BestLoopLastWins(rs, i + 1, best, best_score)

\* the loop of _combine_results over results[i..]: the index of the best
\* record so far and its score; a score that raises ends the loop
RECURSIVE BestLoop(_, _, _, _)
BestLoop(rs, i, best, best_score) ==
    IF i > Len(rs) THEN [kind |-> "return", best |-> best]
    ELSE LET score == _calculate_completeness_score(rs[i])
         IN  IF score.kind = "raise" THEN [kind |-> "raise", best |-> best]
             ELSE IF score.n > best_score
                  THEN BestLoop(rs, i + 1, i, score.n)
                  ELSE BestLoop(rs, i + 1, best, best_score)

ProcessedNote(n, value) ==
    Str(<<"Processed ">> \o IntToStr(n) \o <<" pages. ">> \o Format(value))

\* _combine_results: the record returned and the list as the call leaves it
\* (the winner is the list's own dict, its notes are set in place)
_combine_results(rs) ==
    IF rs = <<>> THEN [out |-> Return(EmptyCombined), arg |-> rs]
    ELSE LET first == _calculate_completeness_score(rs[1])
         IN  IF first.kind = "raise"
             THEN [out |-> Raise(first.err), arg |-> rs]
             ELSE LET loop == BestLoop(rs, 2, 1, first.n)
                  IN  IF loop.kind = "raise"
                      THEN [out |-> Raise(<<"object has no attribute 'strip'">>), arg |-> rs]
                      ELSE LET best_result ==
                                   IF Len(rs) > 1
                                   THEN Put(rs[loop.best], "notes",
                                            ProcessedNote(Len(rs),
                                                Get(rs[loop.best], "notes", Str(<<>>))))
                                   ELSE rs[loop.best]
                           IN  [out |-> Return(best_result),
                                arg |-> [rs EXCEPT ![loop.best] = best_result]]

(***************************************************************************)
(* Inputs.                                                                 *)
(***************************************************************************)
Absent == [t |-> "absent", s |-> <<>>]

\* the token alphabet of the responses enumerated token by token
Alphabet ==
    { LB, RB, COMMA, TEXT,
      Member("patient_first_name", Str(<<"Jane">>)),
      Member("patient_first_name", Str(<<"Ann">>)),
      Member("patient_dob", Null) }

ShortTexts == UNION {[1..n -> Alphabet] : n \in 0..MaxRespLen}

ObjKeys == <<"patient_first_name", "patient_last_name", "patient_dob",
             "confidence", "notes">>

\* what the AI service may put for a key of its JSON object
ObjValues(k) ==
    IF k \in Required
    THEN {Absent, Str(<<"Jane">>), NotFound, Str(<<>>), Null}
    ELSE IF k = "confidence"
    THEN {Absent, Str(<<"high">>), Str(<<"medium">>), Str(<<"unsure">>)}
    ELSE {Absent, Str(<<"see", " ", "page">>)}

ObjAssignments == {a \in [Keys -> UNION {ObjValues(k) : k \in Keys}] :
                      \A k \in Keys : a[k] \in ObjValues(k)}

\* the members of the object text for keys ObjKeys[i..], comma separated
RECURSIVE MemberText(_, _, _, _)
MemberText(a, i, pretty, started) ==
    IF i > Len(ObjKeys) THEN <<>>
    ELSE IF a[ObjKeys[i]] = Absent THEN MemberText(a, i + 1, pretty, started)
    ELSE (IF started THEN <<COMMA>> ELSE <<>>)
         \o (IF pretty THEN <<WSP>> ELSE <<>>)
         \o <<Member(ObjKeys[i], a[ObjKeys[i]])>>
         \o MemberText(a, i + 1, pretty, TRUE)

ObjectText(a, pretty) ==
    <<LB>> \o MemberText(a, 1, pretty, FALSE)
           \o (IF pretty THEN <<WSP>> ELSE <<>>) \o <<RB>>

\* a JSON object alone, pretty-printed, or inside a sentence
ObjectTexts ==
    {ObjectText(a, FALSE) : a \in ObjAssignments}
    \cup {ObjectText(a, TRUE) : a \in ObjAssignments}
    \cup {<<TEXT, WSP>> \o ObjectText(a, FALSE) \o <<WSP, TEXT>> : a \in ObjAssignments}

Responses == {None} \cup {Some(t) : t \in ShortTexts \cup ObjectTexts}

\* the dict with the keys an assignment gives a value
DictOf(a) == [k \in {x \in Keys : a[x] # Absent} |-> a[k]]

ScoreValues(k) ==
    IF k \in Required
    THEN {Absent, Str(<<"Jane">>), NotFound, Str(<<>>), Str(<<WS>>),
          Str(<<WS, "Not Found">>), Null}
    ELSE IF k = "confidence"
    THEN {Absent, Str(<<"high">>), Str(<<"medium">>), Str(<<"low">>)}
    ELSE {Absent, Str(<<"see", " ", "page">>)}

ScoreRecords ==
    {DictOf(a) : a \in {b \in [Keys -> UNION {ScoreValues(k) : k \in Keys}] :
                           \A k \in Keys : b[k] \in ScoreValues(k)}}

CombineValues(k) ==
    IF k = "patient_first_name" THEN {NotFound, Str(<<"Jane">>)}
    ELSE IF k = "patient_last_name" THEN {Str(<<>>), Str(<<"Doe">>)}
    ELSE IF k = "patient_dob" THEN {Absent, Str(<<"1990-01-01">>)}
    ELSE IF k = "confidence" THEN {Str(<<"medium">>)}
    ELSE {Absent, Str(<<"see", " ", "page">>)}

CombineRecords ==
    {DictOf(a) : a \in {b \in [Keys -> UNION {CombineValues(k) : k \in Keys}] :
                           \A k \in Keys : b[k] \in CombineValues(k)}}

CombineLists == UNION {[1..n -> CombineRecords] : n \in 0..MaxResults}

(***************************************************************************)
(* Specification of the parser: one call of _parse_extraction_response on  *)
(* a raw response.                                                         *)
(***************************************************************************)
ParserIdle == response = None /\ parseOut = NotCalled
ScorerIdle == given = <<>> /\ results = <<>> /\ callOut = NotCalled /\ callLog = <<>>

NoDoc == [valid |-> FALSE, pages |-> <<>>]
NoCaught == [at |-> "none", err |-> <<>>]
NoResponse == [ok |-> FALSE, content |-> [some |-> FALSE, text |-> <<"none">>]]

\* no document uploaded, no request made
ServiceIdle ==
    /\ documents = <<>>
    /\ requests = <<>>
    /\ extraction_rate_limit = <<>>
    /\ now = 0
    /\ invoked = <<>>

RunIdle ==
    /\ filename = <<>>
    /\ doc = NoDoc
    /\ pc = "idle"
    /\ text_content = <<>>
    /\ images = <<>>
    /\ all_results = <<>>
    /\ batch_start = 0
    /\ tasks = <<>>
    /\ seq_page = 0
    /\ calls = <<>>
    /\ caught = NoCaught
    /\ ret = NotCalled
    /\ collected = <<>>
    /\ ai_response = NoResponse
    /\ timeouts = <<>>

InitParse ==
    /\ response \in Responses
    /\ parseOut = NotCalled
    /\ ScorerIdle
    /\ RunIdle
    /\ ServiceIdle

ParseCall ==
    /\ parseOut.kind = "none"
    /\ parseOut' = _parse_extraction_response(response)
    /\ UNCHANGED <<response, scorerVars, inputVars, runVars, serviceVars>>

NextParse == ParseCall

SpecParse == InitParse /\ [][NextParse]_vars

(***************************************************************************)
(* Specification of the scorer: calls of _calculate_completeness_score    *)
(* and _is_good_result on one record.                                      *)
(***************************************************************************)
LogEntry(op, kind, n, b) == [op |-> op, kind |-> kind, n |-> n, b |-> b]

InitScore ==
    /\ given \in {<<r>> : r \in ScoreRecords}
    /\ results = given
    /\ callOut = NotCalled
    /\ callLog = <<>>
    /\ ParserIdle
    /\ RunIdle
    /\ ServiceIdle

ScoreCall ==
    /\ Len(callLog) < MaxCalls
    /\ LET c == CalculateCompletenessScoreCall(results[1])
       IN  /\ results' = <<c.arg>>
           /\ callLog' = Append(callLog, LogEntry("score", c.out.kind, c.out.n, FALSE))
    /\ UNCHANGED <<given, callOut, parserVars, inputVars, runVars, serviceVars>>

IsGoodCall ==
    /\ Len(callLog) < MaxCalls
    /\ LET c == IsGoodResultCall(results[1])
       IN  /\ results' = <<c.arg>>
           /\ callLog' = Append(callLog, LogEntry("is_good", c.out.kind, 0, c.out.b))
    /\ UNCHANGED <<given, callOut, parserVars, inputVars, runVars, serviceVars>>

NextScore == ScoreCall \/ IsGoodCall

SpecScore == InitScore /\ [][NextScore]_vars

(***************************************************************************)
(* Specification of the combiner: one call of _combine_results on a list   *)
(* of page records.                                                        *)
(***************************************************************************)
InitCombine ==
    /\ given \in CombineLists
    /\ results = given
    /\ callOut = NotCalled
    /\ callLog = <<>>
    /\ ParserIdle
    /\ RunIdle
    /\ ServiceIdle

CombineCall ==
    /\ callOut.kind = "none"
    /\ LET c == _combine_results(results)
       IN  /\ callOut' = c.out
           /\ results' = c.arg
    /\ UNCHANGED <<given, callLog, parserVars, inputVars, runVars, serviceVars>>

NextCombine == CombineCall

SpecCombine == InitCombine /\ [][NextCombine]_vars

(***************************************************************************)
(* One run of DocumentProcessor.process_document.                          *)
(*                                                                         *)
(* The OpenAI client is the synchronous one: a request blocks the event    *)
(* loop until the service answers or fails, so the tasks of a batch make   *)
(* their requests one after the other in task order, and the timers of     *)
(* asyncio.wait_for are only served once every task of the batch has       *)
(* finished.  A finished inner call wins over its own 60 s timer.  What    *)
(* the 120 s timer of the batch does when it is due by then depends on     *)
(* the interpreter: up to Python 3.11 wait_for finds the gathered results  *)
(* and returns them, from Python 3.12 on the timer cancels the waiting     *)
(* task and wait_for raises TimeoutError although asyncio.gather has all   *)
(* its results.  Both outcomes are steps of the model (EvaluateBatch,      *)
(* BatchTimeout).                                                          *)
(***************************************************************************)
\* str.lower() of the atoms of a file name
Lower(atom) ==
    IF atom = ".PDF" THEN ".pdf"
    ELSE IF atom = "SCAN" THEN "scan"
    ELSE atom

\* filename.lower().endswith('.pdf')
EndsWithPdf(name) == name # <<>> /\ Lower(name[Len(name)]) = ".pdf"

Filenames == {<<"scan", ".pdf">>, <<"SCAN", ".PDF">>, <<"scan", ".png">>}

Page(text, renders) == [text |-> text, renders |-> renders]

\* a PDF with a text layer on page t
TextDoc(n, t) ==
    [valid |-> TRUE,
     pages |-> [i \in 1..n |->
                   Page(IF i = t THEN <<WS, "Name:", WS, "Jane", WS>> ELSE <<WS>>, TRUE)]]

\* a scanned PDF: blank text layer, the pages of R can be rendered
ScanDoc(n, R) ==
    [valid |-> TRUE,
     pages |-> [i \in 1..n |-> Page(IF i % 2 = 1 THEN <<WS>> ELSE <<>>, i \in R)]]

Docs ==
    {NoDoc}
    \cup {TextDoc(n, t) : n \in 1..MaxPages, t \in 1..MaxPages}
    \cup UNION {{ScanDoc(n, R) : R \in SUBSET (1..n)} : n \in 0..MaxPages}

\* what the AI service may answer to one request
FullHigh ==
    [k \in Keys |->
        IF k = "patient_first_name" THEN Str(<<"Jane">>)
        ELSE IF k = "patient_last_name" THEN Str(<<"Doe">>)
        ELSE IF k = "patient_dob" THEN Str(<<"1990-01-01">>)
        ELSE IF k = "confidence" THEN Str(<<"high">>)
        ELSE Absent]

AITexts ==
    { ObjectText(FullHigh, FALSE),
      ObjectText([FullHigh EXCEPT !["patient_dob"] = NotFound,
                                  !["confidence"] = Str(<<"medium">>),
                                  !["notes"] = Str(<<"no", " ", "date">>)], TRUE),
      ObjectText([FullHigh EXCEPT !["patient_last_name"] = Str(<<>>)], FALSE),
      ObjectText([FullHigh EXCEPT !["patient_last_name"] = Absent,
                                  !["patient_dob"] = Absent,
                                  !["confidence"] = Absent], FALSE),
      ObjectText([FullHigh EXCEPT !["patient_first_name"] = Null,
                                  !["confidence"] = Str(<<"unsure">>)], FALSE),
      <<TEXT>> }

\* a request ends with a message content (a text, or None) or with an error
\* of the client
ServiceAnswer(content) == [ok |-> TRUE, content |-> content]
ServiceError == [ok |-> FALSE, content |-> None]

AIOutcomes == {ServiceError, ServiceAnswer(None)} \cup {ServiceAnswer(Some(t)) : t \in AITexts}

\* str(e) of an HTTPException
StrHTTPException(detail) == <<"500: ">> \o detail

\* _extract_with_vision: the content, or HTTPException for any error
_extract_with_vision(outcome) ==
    IF outcome.ok THEN [kind |-> "return", content |-> outcome.content, err |-> <<>>]
    ELSE [kind |-> "raise", content |-> None,
          err |-> StrHTTPException(<<"Failed to process document with Vision API">>)]

\* what _extract_with_text puts as the document content of its request
PlaceholderText == <<"PDF content would be extracted here">>

\* _extract_with_text: the content, or HTTPException for any error
_extract_with_text(outcome) ==
    IF outcome.ok THEN [kind |-> "return", content |-> outcome.content, err |-> <<>>]
    ELSE [kind |-> "raise", content |-> None,
          err |-> StrHTTPException(<<"Failed to extract text from document">>)]

\* _get_fallback_result(f"<prefix>{str(e)}") of an except clause
CatchAs(prefix, outcome) ==
    IF outcome.kind = "raise"
    THEN Return(_get_fallback_result(<<prefix>> \o outcome.err))
    ELSE outcome

\* process_document without its try / except
ProcessDocumentNoCatch(outcome) == outcome

\* the except clause of process_document
ProcessDocumentCatch(outcome) == CatchAs("Document processing error: ", outcome)

\* the except Exception clause of _process_pdf
ProcessPdfCatch(outcome) == CatchAs("PDF processing error: ", outcome)

\* the except clause of _extract_from_images_sequential
SequentialCatch(outcome) == CatchAs("Sequential processing failed: ", outcome)

\* extract_patient_data for a file that is not a PDF, once the request has
\* ended: any exception becomes an HTTPException
extract_patient_data(outcome) ==
    LET r == _extract_with_vision(outcome)
        parsed == IF r.kind = "raise" THEN Raise(r.err)
                  ELSE _parse_extraction_response(r.content)
    IN  IF parsed.kind = "raise"
        THEN Raise(StrHTTPException(<<"Failed to extract data: ">> \o parsed.err))
        ELSE parsed

\* _extract_from_text once the request has ended: exceptions are re-raised
_extract_from_text(outcome) ==
    LET r == _extract_with_text(outcome)
    IN  IF r.kind = "raise" THEN Raise(r.err)
        ELSE _parse_extraction_response(r.content)

\* _process_single_image_with_timeout once the request has ended:
\* len(result) raises on None, every exception is re-raised
_process_single_image_with_timeout(outcome) ==
    LET r == _extract_with_vision(outcome)
    IN  IF r.kind = "raise" THEN Raise(r.err)
        ELSE IF ~r.content.some THEN Raise(<<"object of type 'NoneType' has no len()">>)
        ELSE _parse_extraction_response(r.content)

\* _extract_text_from_pdf: the page texts concatenated
RECURSIVE _extract_text_from_pdf(_, _)
_extract_text_from_pdf(pages, i) ==
    IF i > Len(pages) THEN <<>>
    ELSE pages[i].text \o _extract_text_from_pdf(pages, i + 1)

\* a converter whose except clause appends a blank image for the page that
\* failed: one image per page
RECURSIVE ConvertKeepsFailedPages(_, _)
ConvertKeepsFailedPages(pages, i) ==
    IF i > Len(pages) THEN <<>>
    ELSE <<i>> \o ConvertKeepsFailedPages(pages, i + 1)

\* _convert_pdf_to_images: one image per page that renders, in page order
\* (an image is named by the page it shows)
RECURSIVE _convert_pdf_to_images(_, _)
_convert_pdf_to_images(pages, i) ==
    IF i > Len(pages) THEN <<>>
    ELSE (IF pages[i].renders THEN <<i>> ELSE <<>>)
         \o _convert_pdf_to_images(pages, i + 1)

batch_size == 2

Min(a, b) == IF a < b THEN a ELSE b

Task(page_num, st, val) == [page_num |-> page_num, st |-> st, val |-> val]

\* one batch for all the pages from start on
NewTasksAllPages(imgs, start) ==
    [i \in 1..(Len(imgs) - start) |-> Task(start + i, "pending", EmptyDict)]

\* the tasks of the batch that starts at batch_start (0-based)
NewTasks(imgs, start) ==
    [i \in 1..(Min(start + batch_size, Len(imgs)) - start) |->
        Task(start + i, "pending", EmptyDict)]

Settled(t) == t.st \in {"returned", "raised"}

\* the loop over batch_results without the early return: every record of
\* the batch is appended
RECURSIVE EvalLoopNoStop(_, _, _)
EvalLoopNoStop(ts, i, ar) ==
    IF i > Len(ts) THEN [kind |-> "continue", ar |-> ar, val |-> EmptyDict]
    ELSE IF ts[i].st = "raised" THEN EvalLoopNoStop(ts, i + 1, ar)
    ELSE EvalLoopNoStop(ts, i + 1, Append(ar, ts[i].val))

\* asyncio.gather without return_exceptions: the exception of a task leaves
\* the await and none of the batch's results is looked at
EvalLoopFailFast(ts, i, ar) ==
    IF \E k \in 1..Len(ts) : ts[k].st = "raised"
    THEN [kind |-> "raise", ar |-> ar, val |-> EmptyDict]
    ELSE EvalLoopNoStop(ts, i, ar)

\* the loop over batch_results: an exception is logged, a record is appended
\* and checked; a good record ends the path with the combined result
RECURSIVE EvalLoop(_, _, _)
EvalLoop(ts, i, ar) ==
    IF i > Len(ts) THEN [kind |-> "continue", ar |-> ar, val |-> EmptyDict]
    ELSE IF ts[i].st = "raised" THEN EvalLoop(ts, i + 1, ar)
    ELSE LET ar2 == Append(ar, ts[i].val)
             good == _is_good_result(ts[i].val)
         IN  IF good.kind = "raise"
             THEN [kind |-> "raise", ar |-> ar2, val |-> EmptyDict]
             ELSE IF good.b
             THEN LET c == _combine_results(ar2)
                  IN  IF c.out.kind = "raise"
                      THEN [kind |-> "raise", ar |-> c.arg, val |-> EmptyDict]
                      ELSE [kind |-> "return", ar |-> c.arg, val |-> c.out.val]
             ELSE EvalLoop(ts, i + 1, ar2)

\* the records of the first n tasks of the batch that returned one, as the
\* loop over batch_results appends them
RECURSIVE Appended(_, _)
Appended(ts, n) ==
    IF n = 0 \/ ts = <<>> THEN <<>>
    ELSE IF Head(ts).st = "returned"
    THEN <<Head(ts).val>> \o Appended(Tail(ts), n - 1)
    ELSE Appended(Tail(ts), n)

\* the state of the run after a step: the variables a step of the image path
\* may change
RunState(p, ar, start, ts, page, c, r) ==
    [pc |-> p, all_results |-> ar, batch_start |-> start, tasks |-> ts,
     seq_page |-> page, caught |-> c, ret |-> r]

\* process_document returns the record
Done(ar, c, r) == RunState("done", ar, 0, <<>>, 0, c, r)

\* a fallback that runs the parallel path once more instead
ToSequentialRetriesParallel ==
    RunState("gather", <<>>, 0, NewTasks(images, 0), 0, NoCaught, NotCalled)

\* a sequential path that goes on with the list of the parallel path
ToSequentialKeepsResults ==
    RunState("sequential", all_results, 0, <<>>, 1, NoCaught, NotCalled)

\* _extract_from_images_sequential begins: its own empty all_results
ToSequential == RunState("sequential", <<>>, 0, <<>>, 1, NoCaught, NotCalled)

\* the end of _extract_from_images_parallel after its last batch:
\* combine what was collected, None when nothing was or when combine raises
ParallelEnd(ar) ==
    IF ar # <<>>
    THEN LET c == _combine_results(ar)
         IN  IF c.out.kind = "return" THEN Done(c.arg, NoCaught, c.out)
             ELSE ToSequential
    ELSE ToSequential

\* the for loop of _extract_from_images_parallel goes to the batch at start
NextBatch(imgs, ar, start) ==
    IF start < Len(imgs)
    THEN RunState("gather", ar, start, NewTasks(imgs, start), 0, NoCaught, NotCalled)
    ELSE ParallelEnd(ar)

\* the end of _extract_from_images_sequential without its else branch:
\* _combine_results on whatever was collected, the empty list included
SequentialEndCombineAlways(ar) ==
    LET c == _combine_results(ar)
    IN  Done(c.arg, NoCaught, c.out)

\* the end of _extract_from_images_sequential: combine, or the fallback record
SequentialEnd(ar) ==
    IF ar # <<>>
    THEN LET c == _combine_results(ar)
             out == SequentialCatch(c.out)
         IN  Done(c.arg,
                  IF c.out.kind = "raise"
                  THEN [at |-> "_extract_from_images_sequential", err |-> c.out.err]
                  ELSE NoCaught,
                  out)
    ELSE Done(ar, NoCaught,
              Return(_get_fallback_result(<<"Failed to process any pages with Vision API">>)))

Request(op, page, sent) == [op |-> op, page |-> page, sent |-> sent]


Init ==
    /\ filename \in Filenames
    /\ doc \in Docs
    /\ pc = "start"
    /\ text_content = <<>>
    /\ images = <<>>
    /\ all_results = <<>>
    /\ batch_start = 0
    /\ tasks = <<>>
    /\ seq_page = 0
    /\ calls = <<>>
    /\ caught = NoCaught
    /\ ret = NotCalled
    /\ collected = <<>>
    /\ ai_response = NoResponse
    /\ timeouts = <<>>
    /\ ParserIdle
    /\ ScorerIdle
    /\ ServiceIdle

\* the image-path variables take the values of a RunState
Becomes(n) ==
    /\ pc' = n.pc
    /\ all_results' = n.all_results
    /\ batch_start' = n.batch_start
    /\ tasks' = n.tasks
    /\ seq_page' = n.seq_page
    /\ caught' = n.caught
    /\ ret' = n.ret

\* process_document: the dispatch on the file name
Dispatch ==
    /\ pc = "start"
    /\ pc' = IF EndsWithPdf(filename) THEN "pdf" ELSE "file"
    /\ UNCHANGED <<text_content, images, all_results, batch_start, tasks,
                   seq_page, calls, caught, ret>>
    /\ UNCHANGED <<collected, ai_response, timeouts>>
    /\ UNCHANGED <<parserVars, scorerVars, inputVars, serviceVars>>

\* extract_patient_data sends the whole file to the vision model
FileCall ==
    /\ pc = "file"
    /\ pc' = "file_wait"
    /\ calls' = Append(calls, Request("vision", 0, <<>>))
    /\ UNCHANGED <<text_content, images, all_results, batch_start, tasks,
                   seq_page, caught, ret>>
    /\ UNCHANGED <<collected, ai_response, timeouts>>
    /\ UNCHANGED <<parserVars, scorerVars, inputVars, serviceVars>>

\* the request ends; extract_patient_data returns or raises HTTPException,
\* which process_document turns into the fallback record
FileReturn ==
    /\ pc = "file_wait"
    /\ \E outcome \in AIOutcomes :
          LET out == extract_patient_data(outcome)
          IN  /\ ret' = ProcessDocumentCatch(out)
              /\ caught' = IF out.kind = "raise"
                           THEN [at |-> "process_document", err |-> out.err]
                           ELSE NoCaught
              /\ ai_response' = outcome
    /\ pc' = "done"
    /\ UNCHANGED <<collected, timeouts>>
    /\ UNCHANGED <<text_content, images, all_results, batch_start, tasks,
                   seq_page, calls>>
    /\ UNCHANGED <<parserVars, scorerVars, inputVars, serviceVars>>

\* _process_pdf up to the choice of the path
ProcessPdf ==
    /\ pc = "pdf"
    /\ IF ~doc.valid
       THEN \* fitz.FileDataError
            /\ pc' = "done"
            /\ caught' = [at |-> "_process_pdf", err |-> <<"Failed to open stream">>]
            /\ ret' = CatchAs("PDF file is corrupted: ", Raise(<<"Failed to open stream">>))
            /\ UNCHANGED text_content
       ELSE IF Len(doc.pages) = 0
       THEN /\ pc' = "done"
            /\ ret' = Return(_get_fallback_result(<<"PDF has no pages">>))
            /\ UNCHANGED <<text_content, caught>>
       ELSE /\ text_content' = _extract_text_from_pdf(doc.pages, 1)
            /\ pc' = IF Strip(text_content') # <<>> THEN "text" ELSE "images"
            /\ UNCHANGED <<caught, ret>>
    /\ UNCHANGED <<images, all_results, batch_start, tasks, seq_page, calls>>
    /\ UNCHANGED <<collected, ai_response, timeouts>>
    /\ UNCHANGED <<parserVars, scorerVars, inputVars, serviceVars>>

\* _extract_from_text sends its request through _extract_with_text
TextCall ==
    /\ pc = "text"
    /\ pc' = "text_wait"
    /\ calls' = Append(calls, Request("text", 0, PlaceholderText))
    /\ UNCHANGED <<text_content, images, all_results, batch_start, tasks,
                   seq_page, caught, ret>>
    /\ UNCHANGED <<collected, ai_response, timeouts>>
    /\ UNCHANGED <<parserVars, scorerVars, inputVars, serviceVars>>

\* the request ends; the parsed record is returned as it is, an exception
\* reaches the except clause of _process_pdf
TextReturn ==
    /\ pc = "text_wait"
    /\ \E outcome \in AIOutcomes :
          LET out == _extract_from_text(outcome)
          IN  /\ ret' = ProcessDocumentCatch(ProcessPdfCatch(out))
              /\ caught' = IF out.kind = "raise"
                           THEN [at |-> "_process_pdf", err |-> out.err]
                           ELSE NoCaught
              /\ ai_response' = outcome
    /\ pc' = "done"
    /\ UNCHANGED <<collected, timeouts>>
    /\ UNCHANGED <<text_content, images, all_results, batch_start, tasks,
                   seq_page, calls>>
    /\ UNCHANGED <<parserVars, scorerVars, inputVars, serviceVars>>

\* _extract_from_images: render the pages, then the first batch of
\* _extract_from_images_parallel
ExtractFromImages ==
    /\ pc = "images"
    /\ images' = _convert_pdf_to_images(doc.pages, 1)
    /\ IF images' = <<>>
       THEN Becomes(Done(<<>>, NoCaught,
                Return(_get_fallback_result(<<"No images could be extracted from PDF">>))))
       ELSE Becomes(NextBatch(images', <<>>, 0))
    /\ UNCHANGED <<text_content, calls>>
    /\ UNCHANGED <<collected, ai_response, timeouts>>
    /\ UNCHANGED <<parserVars, scorerVars, inputVars, serviceVars>>

\* a task of the batch sends its request: the tasks before it have finished
\* and no request is outstanding
TaskCall(i) ==
    /\ pc = "gather"
    /\ tasks[i].st = "pending"
    /\ \A j \in 1..(i - 1) : Settled(tasks[j])
    /\ tasks' = [tasks EXCEPT ![i].st = "calling"]
    /\ calls' = Append(calls, Request("vision", tasks[i].page_num, <<>>))
    /\ UNCHANGED <<pc, text_content, images, all_results, batch_start,
                   seq_page, caught, ret>>
    /\ UNCHANGED <<collected, ai_response, timeouts>>
    /\ UNCHANGED <<parserVars, scorerVars, inputVars, serviceVars>>

\* the request of a task ends: the task returns its parsed record or raises
TaskReturn(i) ==
    /\ pc = "gather"
    /\ tasks[i].st = "calling"
    /\ \E outcome \in AIOutcomes :
          LET out == _process_single_image_with_timeout(outcome)
          IN  /\ tasks' = [tasks EXCEPT ![i] =
                              IF out.kind = "raise"
                              THEN Task(tasks[i].page_num, "raised", EmptyDict)
                              ELSE Task(tasks[i].page_num, "returned", out.val)]
              /\ ai_response' = outcome
    /\ UNCHANGED <<collected, timeouts>>
    /\ UNCHANGED <<pc, text_content, images, all_results, batch_start,
                   seq_page, calls, caught, ret>>
    /\ UNCHANGED <<parserVars, scorerVars, inputVars, serviceVars>>

\* asyncio.gather hands over the results of the batch in task order; the
\* loop over them collects the records; then the next batch, the return of
\* the parallel path, or (None returned) the sequential path
EvaluateBatch ==
    /\ pc = "gather"
    /\ \A i \in 1..Len(tasks) : Settled(tasks[i])
    /\ LET e == EvalLoop(tasks, 1, all_results)
       IN  /\ Becomes(IF e.kind = "return" THEN Done(e.ar, NoCaught, Return(e.val))
                      ELSE IF e.kind = "raise" THEN ToSequential
                      ELSE NextBatch(images, e.ar, batch_start + batch_size))
           /\ collected' = collected \o Appended(tasks, Len(e.ar) - Len(all_results))
    /\ UNCHANGED <<text_content, images, calls>>
    /\ UNCHANGED <<ai_response, timeouts>>
    /\ UNCHANGED <<parserVars, scorerVars, inputVars, serviceVars>>

\* the 120 s of the batch have passed when the event loop is free again
\* (Python 3.12 and later):
\* asyncio.TimeoutError, the results of the batch are dropped, continue
BatchTimeout ==
    /\ pc = "gather"
    /\ \A i \in 1..Len(tasks) : Settled(tasks[i])
    /\ Becomes(NextBatch(images, all_results, batch_start + batch_size))
    /\ UNCHANGED <<text_content, images, calls>>
    /\ timeouts' = Append(timeouts, batch_start)
    /\ UNCHANGED <<collected, ai_response>>
    /\ UNCHANGED <<parserVars, scorerVars, inputVars, serviceVars>>

\* _extract_from_images_sequential sends the request of the page at hand
SeqCall ==
    /\ pc = "sequential"
    /\ pc' = "seq_wait"
    /\ calls' = Append(calls, Request("vision", seq_page, <<>>))
    /\ UNCHANGED <<text_content, images, all_results, batch_start, tasks,
                   seq_page, caught, ret>>
    /\ UNCHANGED <<collected, ai_response, timeouts>>
    /\ UNCHANGED <<parserVars, scorerVars, inputVars, serviceVars>>

\* the request ends: a failed page is skipped, a record is appended and
\* checked (a check that raises skips to the next page, the record stays);
\* after a good record or the last page the path returns
SeqReturn ==
    /\ pc = "seq_wait"
    /\ \E outcome \in AIOutcomes :
          LET out == _process_single_image_with_timeout(outcome)
              ar == IF out.kind = "raise" THEN all_results
                    ELSE Append(all_results, out.val)
              good == IF out.kind = "raise" THEN BoolReturn(FALSE)
                      ELSE _is_good_result(out.val)
              stop == good.kind = "return" /\ good.b
          IN  /\ Becomes(IF stop \/ seq_page >= Len(images)
                         THEN SequentialEnd(ar)
                         ELSE RunState("sequential", ar, 0, <<>>, seq_page + 1,
                                       NoCaught, NotCalled))
              /\ collected' = IF out.kind = "raise" THEN collected
                              ELSE Append(collected, out.val)
              /\ ai_response' = outcome
    /\ UNCHANGED timeouts
    /\ UNCHANGED <<text_content, images, calls>>
    /\ UNCHANGED <<parserVars, scorerVars, inputVars, serviceVars>>

Next ==
    \/ Dispatch
    \/ FileCall
    \/ FileReturn
    \/ ProcessPdf
    \/ TextCall
    \/ TextReturn
    \/ ExtractFromImages
    \/ \E i \in 1..batch_size : i <= Len(tasks) /\ TaskCall(i)
    \/ \E i \in 1..batch_size : i <= Len(tasks) /\ TaskReturn(i)
    \/ EvaluateBatch
    \/ BatchTimeout
    \/ SeqCall
    \/ SeqReturn

Spec == Init /\ [][Next]_vars


(***************************************************************************)
(* Properties of a run of process_document (Spec).                         *)
(***************************************************************************)
\* the text ends with the given text
EndsWith(text, tail) ==
    /\ Len(tail) <= Len(text)
    /\ SubSeq(text, Len(text) - Len(tail) + 1, Len(text)) = tail

\* the three fields "Not Found", confidence "low" and a note
IsFallbackShaped(rec) ==
    /\ DOMAIN rec = {"patient_first_name", "patient_last_name", "patient_dob",
                     "confidence", "notes"}
    /\ rec["patient_first_name"] = Str(<<"Not Found">>)
    /\ rec["patient_last_name"] = Str(<<"Not Found">>)
    /\ rec["patient_dob"] = Str(<<"Not Found">>)
    /\ rec["confidence"] = Str(<<"low">>)
    /\ rec["notes"].t = "str"

\* C1: process_document never raises: whatever the file, the renderer, the
\* AI service and the parser do, on the PDF route and on the other, the run
\* ends with a record; when an exception reached an except clause that
\* answers for the whole run, that record is the fallback record (three
\* fields "Not Found", confidence "low") and its note ends with the text of
\* the exception.
C1_NeverRaises ==
    /\ ret.kind # "raise"
    /\ pc = "done" => ret.kind = "return"
    /\ (pc = "done" /\ caught.at # "none") =>
          /\ IsFallbackShaped(ret.val)
          /\ caught.err # <<>>
          /\ EndsWith(ret.val["notes"].s, caught.err)

\* the vision request for a file that is not a PDF failed and the caller got
\* the fallback record naming the error
C1_Witness ==
    /\ pc = "done"
    /\ ~EndsWithPdf(filename)
    /\ caught.at = "process_document"
    /\ ret.kind = "return"
    /\ ret.val["notes"] =
          Str(<<"Processing failed: ", "Document processing error: ", "500: ",
                "Failed to extract data: ", "500: ",
                "Failed to process document with Vision API">>)

\* C2: every record process_document returns has the three required keys,
\* each holding a non-null, non-empty string.
C2_RequiredFieldsNonEmptyStrings ==
    (pc = "done" /\ ret.kind = "return") =>
        \A f \in {"patient_first_name", "patient_last_name", "patient_dob"} :
            /\ f \in DOMAIN ret.val
            /\ ret.val[f].t = "str"
            /\ ret.val[f].s # <<>>

\* C3: every record process_document returns carries a confidence in
\* {high, medium, low} and a notes string.
C3_ConfidenceAndNotes ==
    (pc = "done" /\ ret.kind = "return") =>
        /\ "confidence" \in DOMAIN ret.val
        /\ ret.val["confidence"] \in {Str(<<"high">>), Str(<<"medium">>), Str(<<"low">>)}
        /\ "notes" \in DOMAIN ret.val
        /\ ret.val["notes"].t = "str"


(***************************************************************************)
(* Properties of the parser (SpecParse).                                   *)
(***************************************************************************)
\* some "{" of the text has a "}" after it
HasBracePair(text) ==
    \E i, j \in 1..Len(text) : i < j /\ text[i] = LB /\ text[j] = RB

\* the text from its first "{" to its last "}"
FirstToLast(text) ==
    LET i == CHOOSE a \in 1..Len(text) :
                 text[a] = LB /\ \A b \in 1..(a - 1) : text[b] # LB
        j == CHOOSE a \in 1..Len(text) :
                 text[a] = RB /\ \A b \in (a + 1)..Len(text) : text[b] # RB
    IN  SubSeq(text, i, j)

\* the keys of the members of an object text
MemberKeys(text) == {text[i].k : i \in {n \in 1..Len(text) : text[n].t = "member"}}

\* the value of the last member with key k
LastValue(text, k) ==
    LET at == {n \in 1..Len(text) : text[n].t = "member" /\ text[n].k = k}
    IN  text[CHOOSE n \in at : \A m \in at : m <= n].v

IsFallbackRecord(out) ==
    /\ out.kind = "return"
    /\ DOMAIN out.val = {"patient_first_name", "patient_last_name", "patient_dob",
                         "confidence", "notes"}
    /\ out.val["patient_first_name"] = Str(<<"Not Found">>)
    /\ out.val["patient_last_name"] = Str(<<"Not Found">>)
    /\ out.val["patient_dob"] = Str(<<"Not Found">>)
    /\ out.val["confidence"] = Str(<<"low">>)
    /\ out.val["notes"] = Str(<<"Used fallback parsing method">>)

\* the response is a string without a JSON-object-shaped substring, or one
\* whose text from the first "{" to the last "}" is not a JSON object
Malformed(resp) ==
    /\ resp.some
    /\ \/ ~HasBracePair(resp.text)
       \/ ~JsonValid(FirstToLast(resp.text))

\* C4: for every raw response with no JSON-object-shaped substring, or whose
\* substring from the first "{" to the last "}" fails JSON decoding, the
\* parser returns exactly the fallback record (three fields "Not Found",
\* confidence "low", notes "Used fallback parsing method").
C4_MalformedGivesFallback ==
    (parseOut.kind # "none" /\ Malformed(response)) => IsFallbackRecord(parseOut)

\* a response with two JSON objects, "{...} ... {...}", was parsed into the
\* fallback record
C4_Witness ==
    /\ parseOut.kind = "return"
    /\ response.some
    /\ Len(response.text) = 5
    /\ response.text[1] = LB /\ response.text[3] = RB
    /\ response.text[4] = LB /\ response.text[5] = RB
    /\ response.text[2].t = "member"
    /\ IsFallbackRecord(parseOut)

\* C5: the parser never raises, whatever raw response it is handed,
\* None included.
C5_ParserNeverRaises == parseOut.kind # "raise"

\* the object text o lacks a required field
LacksRequired(o) == \E f \in Required : f \notin MemberKeys(o)

\* the record has every key of the object text o with its decoded value and
\* "Not Found" for the required fields o lacks
FilledFrom(out, o) ==
    /\ out.kind = "return"
    /\ \A k \in MemberKeys(o) : k \in DOMAIN out.val /\ out.val[k] = LastValue(o, k)
    /\ \A f \in Required \ MemberKeys(o) :
          f \in DOMAIN out.val /\ out.val[f] = Str(<<"Not Found">>)

\* C6 as stated: for every response containing a valid JSON object that
\* lacks some required field, the parser sets the absent required fields to
\* "Not Found" and returns every key that was present unchanged.
C6_AsStated ==
    (parseOut.kind # "none" /\ response.some) =>
        \A i, j \in 1..Len(response.text) :
            LET o == SubSeq(response.text, i, j)
            IN  (i < j /\ JsonValid(o) /\ LacksRequired(o)) => FilledFrom(parseOut, o)

\* C6, amended: for every response whose text from the first "{" to the last
\* "}" is a valid JSON object that lacks some required field, the parser
\* returns the decoded object with exactly the absent required fields set to
\* "Not Found": every key that was present keeps its decoded value, and no
\* other key is added.
C6_DecodedObjectFilled ==
    (/\ parseOut.kind # "none"
     /\ response.some
     /\ HasBracePair(response.text)
     /\ JsonValid(FirstToLast(response.text))
     /\ LacksRequired(FirstToLast(response.text)))
    => /\ FilledFrom(parseOut, FirstToLast(response.text))
       /\ DOMAIN parseOut.val = MemberKeys(FirstToLast(response.text)) \cup Required

\* an object inside a sentence that lacks only patient_dob and holds a null
\* first name was parsed: dob is "Not Found", the null is kept
C6_Witness ==
    /\ parseOut.kind = "return"
    /\ response.some
    /\ response.text # <<>>
    /\ response.text[1] = TEXT
    /\ HasBracePair(response.text)
    /\ JsonValid(FirstToLast(response.text))
    /\ MemberKeys(FirstToLast(response.text)) = Keys \ {"patient_dob"}
    /\ parseOut.val["patient_dob"] = Str(<<"Not Found">>)
    /\ parseOut.val["patient_first_name"] = Null
    /\ parseOut.val["patient_last_name"] = Str(<<"Jane">>)
    /\ parseOut.val["confidence"] = Str(<<"high">>)

(***************************************************************************)
(* Properties of the scorer (SpecScore).                                   *)
(***************************************************************************)
\* the record is an ExtractionRecord as far as it goes: the fields it has
\* hold strings
Typed(rec) == \A k \in DOMAIN rec : rec[k].t = "str"

\* whitespace only
Blank(s) == \A i \in 1..Len(s) : s[i] = " "

\* the required fields of a record that hold a value other than "Not Found"
\* that is not empty after trimming
FoundFields(rec) ==
    {f \in {"patient_first_name", "patient_last_name", "patient_dob"} :
        /\ f \in DOMAIN rec
        /\ rec[f] # Str(<<"Not Found">>)
        /\ ~Blank(rec[f].s)}

ScoreEntries == {i \in 1..Len(callLog) : callLog[i].op = "score"}
IsGoodEntries == {i \in 1..Len(callLog) : callLog[i].op = "is_good"}

\* C7: on a record whose fields hold strings, score(record) is the number of
\* required fields whose value is neither "Not Found" nor empty after
\* trimming; it is an integer in 0..3, 0 for the all-"Not Found" record, the
\* same on every call, and the record is left as it was.
C7_ScoreCountsFoundFields ==
    Typed(given[1]) =>
        /\ results = given
        /\ \A i \in ScoreEntries :
              /\ callLog[i].kind = "return"
              /\ callLog[i].n = Cardinality(FoundFields(given[1]))
              /\ callLog[i].n \in 0..3
              /\ (\A f \in Required : Get(given[1], f, NotFound) = NotFound)
                    => callLog[i].n = 0
        /\ \A i, j \in ScoreEntries : callLog[i].n = callLog[j].n

\* score was applied twice to a record with one real value, one whitespace
\* value and one "Not Found": 1 both times
C7_Witness ==
    /\ Len(callLog) = 2
    /\ callLog[1].op = "score" /\ callLog[2].op = "score"
    /\ Typed(given[1])
    /\ DOMAIN given[1] = Keys
    /\ given[1]["patient_first_name"] = Str(<<"Jane">>)
    /\ given[1]["patient_last_name"] = Str(<<" ">>)
    /\ given[1]["patient_dob"] = Str(<<"Not Found">>)
    /\ callLog[1].n = 1 /\ callLog[2].n = 1

\* C8: on a record whose fields hold strings, is_good(record) is true iff
\* score = 3, or score >= 2 and confidence is "high"; a record without a
\* confidence key is good only with score 3.
C8_IsGoodIffThreshold ==
    Typed(given[1]) =>
        \A i \in IsGoodEntries :
            LET n == Cardinality(FoundFields(given[1]))
                high == /\ "confidence" \in DOMAIN given[1]
                        /\ given[1]["confidence"] = Str(<<"high">>)
            IN  /\ callLog[i].kind = "return"
                /\ callLog[i].b = (n = 3 \/ (n >= 2 /\ high))

\* is_good was false on a record of score 2 with confidence "medium"
C8_Witness ==
    /\ Len(callLog) >= 1
    /\ callLog[1].op = "is_good"
    /\ callLog[1].kind = "return"
    /\ callLog[1].b = FALSE
    /\ Typed(given[1])
    /\ Cardinality(FoundFields(given[1])) = 2
    /\ "confidence" \in DOMAIN given[1]
    /\ given[1]["confidence"] = Str(<<"medium">>)

(***************************************************************************)
(* Properties of the combiner (SpecCombine).                               *)
(***************************************************************************)
\* the earliest record of the list with the highest score
Winner(rs) ==
    CHOOSE w \in 1..Len(rs) :
        /\ \A i \in 1..Len(rs) :
              Cardinality(FoundFields(rs[i])) <= Cardinality(FoundFields(rs[w]))
        /\ \A i \in 1..(w - 1) :
              Cardinality(FoundFields(rs[i])) < Cardinality(FoundFields(rs[w]))

NoteText(rec) == IF "notes" \in DOMAIN rec THEN rec["notes"].s ELSE <<>>

\* C9: combine on a non-empty list returns the record with the highest
\* score, the earliest winning ties; with more than one record its notes
\* are "Processed N pages. " followed by its original note and its other
\* fields are unchanged; a single record is returned unchanged.
C9_CombinePicksFirstBest ==
    (callOut.kind # "none" /\ given # <<>>) =>
        LET w == given[Winner(given)] IN
        /\ callOut.kind = "return"
        /\ Len(given) = 1 => callOut.val = given[1]
        /\ Len(given) > 1 =>
              /\ DOMAIN callOut.val = DOMAIN w \cup {"notes"}
              /\ \A k \in DOMAIN w \ {"notes"} : callOut.val[k] = w[k]
              /\ callOut.val["notes"] =
                    Str(<<"Processed ">> \o IntToStr(Len(given)) \o <<" pages. ">>
                        \o NoteText(w))

\* a list of three whose second and third records both score 3 and whose
\* first scores less was combined into the second
C9_Witness ==
    /\ callOut.kind = "return"
    /\ Len(given) = 3
    /\ Cardinality(FoundFields(given[1])) = 1
    /\ Cardinality(FoundFields(given[2])) = 3
    /\ Cardinality(FoundFields(given[3])) = 3
    /\ given[2] # given[3]
    /\ "notes" \in DOMAIN given[2]
    /\ callOut.val["notes"] =
          Str(<<"Processed ", "3", " pages. ", "see", " ", "page">>)

\* C10: combine([]) returns exactly the record with the three fields
\* "Not Found", confidence "low" and notes "No data extracted from any page".
C10_CombineEmpty ==
    (callOut.kind # "none" /\ given = <<>>) =>
        /\ callOut.kind = "return"
        /\ DOMAIN callOut.val = {"patient_first_name", "patient_last_name",
                                 "patient_dob", "confidence", "notes"}
        /\ callOut.val["patient_first_name"] = Str(<<"Not Found">>)
        /\ callOut.val["patient_last_name"] = Str(<<"Not Found">>)
        /\ callOut.val["patient_dob"] = Str(<<"Not Found">>)
        /\ callOut.val["confidence"] = Str(<<"low">>)
        /\ callOut.val["notes"] = Str(<<"No data extracted from any page">>)

\* combine was called on the empty list and returned
C10_Witness ==
    /\ given = <<>>
    /\ results = <<>>
    /\ callOut.kind = "return"
    /\ callOut.val["notes"] = Str(<<"No data extracted from any page">>)

(***************************************************************************)
(* Properties of the image path of a run (Spec).                           *)
(***************************************************************************)
\* is_good(rec) is true: no required field holds a non-string (the score
\* would raise), and the score is 3, or at least 2 with confidence "high"
SatisfiesIsGood(rec) ==
    /\ \A f \in {"patient_first_name", "patient_last_name", "patient_dob"} :
          f \in DOMAIN rec => rec[f].t = "str"
    /\ LET n == Cardinality(FoundFields(rec))
       IN  \/ n = 3
           \/ /\ n >= 2
              /\ "confidence" \in DOMAIN rec
              /\ rec["confidence"] = Str(<<"high">>)

\* some record collected so far satisfies is_good
GoodCollected == \E i \in 1..Len(collected) : SatisfiesIsGood(collected[i])

\* the path at hand has pages it has not submitted yet
PagesRemain ==
    IF pc = "gather" THEN batch_start + Len(tasks) < Len(images)
    ELSE seq_page < Len(images)

\* the pages of the requests sent so far, in order
PagesCalled == [i \in 1..Len(calls) |-> calls[i].page]

\* C11: early stopping of the image path is exact.  Once a collected record
\* satisfies is_good the run is over: no later batch is started and no
\* further page is submitted.  And the image path ends only when a collected
\* record satisfies is_good or no page remains: a record of score 2 without
\* confidence "high", or of score below 2, never ends it while pages remain.
C11_EarlyStopExact ==
    /\ [](GoodCollected => pc = "done")
    /\ [][(GoodCollected /\ pc = "done") => calls' = calls]_vars
    /\ [][(pc \in {"gather", "seq_wait"} /\ pc' = "done")
              => (GoodCollected' \/ ~PagesRemain)]_vars

\* three pages: page 1 gave one field, page 2 two fields with confidence
\* "medium", page 3 all three; the run went on after page 2, into a second
\* batch, and stopped at page 3
C11_Witness ==
    /\ pc = "done"
    /\ Len(images) = 3
    /\ PagesCalled = <<1, 2, 3>>
    /\ Len(collected) = 3
    /\ Cardinality(FoundFields(collected[1])) = 1
    /\ Cardinality(FoundFields(collected[2])) = 2
    /\ collected[2]["confidence"] = Str(<<"medium">>)
    /\ ~SatisfiesIsGood(collected[2])
    /\ Cardinality(FoundFields(collected[3])) = 3
    /\ SatisfiesIsGood(collected[3])

\* the record has the same value as r for key k, or neither has the key
SameAt(rec, r, k) ==
    /\ k \in DOMAIN rec <=> k \in DOMAIN r
    /\ k \in DOMAIN r => rec[k] = r[k]

\* C12: whenever the image path stops because the record r it collected last
\* satisfies is_good, the record returned has r's values for the three
\* required fields and r's confidence, whatever was collected before r; when
\* r is the only record it is returned as it is.
C12_GoodRecordReturned ==
    (pc = "done" /\ collected # <<>> /\ SatisfiesIsGood(collected[Len(collected)])) =>
        LET r == collected[Len(collected)]
        IN  /\ ret.kind = "return"
            /\ \A k \in {"patient_first_name", "patient_last_name", "patient_dob",
                         "confidence"} : SameAt(ret.val, r, k)
            /\ Len(all_results) = 1 => ret.val = r

\* the record with the three fields "Not Found", confidence "low" and the note
FallbackWithNote(note) ==
    [k \in {"patient_first_name", "patient_last_name", "patient_dob",
            "confidence", "notes"} |->
        IF k = "confidence" THEN Str(<<"low">>)
        ELSE IF k = "notes" THEN Str(note)
        ELSE Str(<<"Not Found">>)]

\* the image path of a document with rendered pages has ended and no page
\* gave a record, on the parallel path or on the sequential one
NoPageGaveARecord ==
    /\ pc = "done"
    /\ images # <<>>
    /\ collected = <<>>

\* C13 as stated: if no page produces a usable record under either path,
\* the run returns, without raising, the record with the three fields
\* "Not Found", confidence "low" and the note "Failed to process any pages
\* with Vision API".
C13_AsStated ==
    NoPageGaveARecord =>
        /\ ret.kind = "return"
        /\ ret.val = FallbackWithNote(<<"Failed to process any pages with Vision API">>)

\* C13, amended: if no page produces a usable record under either path, the
\* run returns, without raising, the record with the three fields "Not
\* Found", confidence "low" and the note "Processing failed: Failed to
\* process any pages with Vision API".
C13_ExhaustionGivesFallback ==
    NoPageGaveARecord =>
        /\ ret.kind = "return"
        /\ caught = NoCaught
        /\ ret.val = FallbackWithNote(<<"Processing failed: ",
                                        "Failed to process any pages with Vision API">>)

\* both pages of a two-page scan failed on the parallel path and again on
\* the sequential one, and the caller got the fallback record
C13_Witness ==
    /\ NoPageGaveARecord
    /\ Len(images) = 2
    /\ PagesCalled = <<1, 2, 1, 2>>
    /\ ~ai_response.ok
    /\ ret.kind = "return"
    /\ ret.val["notes"] = Str(<<"Processing failed: ",
                                "Failed to process any pages with Vision API">>)

\* the file is a PDF with at least one page and a blank text layer, none of
\* whose pages can be rendered, and the run has ended
NoPageRenders ==
    /\ pc = "done"
    /\ EndsWithPdf(filename)
    /\ doc.valid
    /\ Len(doc.pages) >= 1
    /\ Strip(_extract_text_from_pdf(doc.pages, 1)) = <<>>
    /\ \A i \in 1..Len(doc.pages) : ~doc.pages[i].renders

\* C14 as stated: for a PDF with at least one page and an empty text layer
\* whose every page fails to render, process_document returns the "Failed to
\* process any pages with Vision API" fallback record and no exception
\* reaches the caller.
C14_AsStated ==
    NoPageRenders =>
        /\ ret.kind = "return"
        /\ IsFallbackShaped(ret.val)
        /\ \E i \in 1..Len(ret.val["notes"].s) :
              ret.val["notes"].s[i] = "Failed to process any pages with Vision API"

\* C14, amended: for such a PDF process_document returns, without sending a
\* request to the AI service and without raising or catching an exception,
\* the record with the three fields "Not Found", confidence "low" and the
\* note "Processing failed: No images could be extracted from PDF".
C14_NoImagesGivesFallback ==
    NoPageRenders =>
        /\ ret.kind = "return"
        /\ caught = NoCaught
        /\ calls = <<>>
        /\ images = <<>>
        /\ ret.val = FallbackWithNote(<<"Processing failed: ",
                                        "No images could be extracted from PDF">>)

\* a three-page scan none of whose pages renders was processed
C14_Witness ==
    /\ NoPageRenders
    /\ Len(doc.pages) = 3
    /\ ret.kind = "return"
    /\ ret.val["notes"] = Str(<<"Processing failed: ",
                                "No images could be extracted from PDF">>)

\* _process_pdf has opened a PDF with pages and read its text layer
PdfRead ==
    /\ EndsWithPdf(filename)
    /\ doc.valid
    /\ Len(doc.pages) >= 1
    /\ pc \notin {"start", "pdf"}

\* the ops of the requests sent so far, in order
OpsCalled == [i \in 1..Len(calls) |-> calls[i].op]

\* C15: dispatch of a PDF.  When the concatenated text layer is not blank,
\* the run sends exactly one text request and no vision request, collects,
\* scores and combines nothing, and returns the record the parser makes of
\* the response as it is.  When the text layer is blank, the run sends no
\* text request and takes the image path: it renders the pages and every
\* request it sends is a vision request for a page.
C15_PdfDispatch ==
    PdfRead =>
        IF ~Blank(text_content)
        THEN /\ pc \in {"text", "text_wait", "done"}
             /\ images = <<>> /\ all_results = <<>> /\ collected = <<>>
             /\ OpsCalled = (IF pc = "text" THEN <<>> ELSE <<"text">>)
             /\ (pc = "done" /\ ai_response.ok /\ ai_response.content.some) =>
                   ret = _parse_extraction_response(ai_response.content)
        ELSE /\ pc \in {"images", "gather", "sequential", "seq_wait", "done"}
             /\ \A i \in 1..Len(calls) :
                   calls[i].op = "vision" /\ calls[i].page \in 1..Len(images)
             /\ pc = "done" =>
                   \/ calls # <<>>
                   \/ /\ \A i \in 1..Len(doc.pages) : ~doc.pages[i].renders
                      /\ images = <<>>

\* a three-page PDF with a text layer was answered with a two-field record
\* carrying a note: one text request, and the record came back as parsed
C15_Witness ==
    /\ PdfRead
    /\ pc = "done"
    /\ Len(doc.pages) = 3
    /\ ~Blank(text_content)
    /\ OpsCalled = <<"text">>
    /\ ai_response.ok /\ ai_response.content.some
    /\ ret.kind = "return"
    /\ Cardinality(FoundFields(ret.val)) = 2
    /\ "notes" \in DOMAIN ret.val
    /\ ret.val["notes"] = Str(<<"no", " ", "date">>)

\* a scan whose text layer is whitespace only went down the image path
C15_WitnessBlank ==
    /\ PdfRead
    /\ pc = "done"
    /\ text_content # <<>>
    /\ Blank(text_content)
    /\ OpsCalled = <<"vision">>

\* C16: on the text path the document content sent to the AI service is the
\* concatenated text of the PDF's pages: every text request carries the text
\* the renderer extracted.
C16_TextRequestCarriesText ==
    \A i \in 1..Len(calls) :
        calls[i].op = "text" => calls[i].sent = text_content

\* is_good(rec) raises: a required field holds a value that is not a string
IsGoodRaises(rec) ==
    \E f \in {"patient_first_name", "patient_last_name", "patient_dob"} :
        f \in DOMAIN rec /\ rec[f].t # "str"

\* the parallel path met an unexpected error: the check of a record it had
\* collected raised
UnexpectedError == \E i \in 1..Len(collected) : IsGoodRaises(collected[i])

\* C17: the sequential fallback is entered only when the parallel path
\* raised an unexpected error, never because page tasks failed: as long as
\* no unexpected error occurred the run is not on the sequential path and no
\* page has been submitted to the AI service twice.
C17_SequentialOnlyOnError ==
    ~UnexpectedError =>
        /\ pc \notin {"sequential", "seq_wait"}
        /\ \A i, j \in 1..Len(calls) :
              (i < j /\ calls[i].op = "vision" /\ calls[j].op = "vision")
                  => calls[i].page # calls[j].page

\* a task of the batch at hand has completed with a record that satisfies
\* is_good
GoodTaskCompleted ==
    /\ pc = "gather"
    /\ \E i \in 1..Len(tasks) :
          tasks[i].st = "returned" /\ SatisfiesIsGood(tasks[i].val)

\* the other page of the batch has not been answered yet
OtherPageUnfinished ==
    \E j \in 1..Len(tasks) : tasks[j].st \in {"pending", "calling"}

\* C18: within a batch a record is checked against is_good when its task
\* completes, in completion order and not in page order: once a task of the
\* batch has completed with a record that satisfies is_good while the other
\* page of the batch is unfinished, the run stops early on that record; it
\* does not request, wait for or first evaluate the other page.
C18_CheckedInCompletionOrder ==
    [][(GoodTaskCompleted /\ OtherPageUnfinished)
           => (pc' = "done" /\ calls' = calls)]_vars

\* the tasks of the batch at hand that have been launched: their request
\* has been sent
Launched == {i \in 1..Len(tasks) : tasks[i].st # "pending"}

\* C19: at every moment of the parallel path the tasks in flight belong to
\* one batch of at most 2 consecutive pages, and batches run strictly in
\* page order: the pages requested so far are 1, 2, ... in this order, every
\* page of the earlier batches among them; a next batch is started only when
\* every task of the batch at hand has settled (its timeout included, which
\* fires no earlier); and after the run has stopped no request is sent.
C19_OneBatchInPageOrder ==
    /\ [](pc = "gather" =>
            /\ Len(tasks) \in 1..2
            /\ batch_start % 2 = 0
            /\ \A i \in 1..Len(tasks) : tasks[i].page_num = batch_start + i
            /\ batch_start + Len(tasks) <= Len(images)
            /\ PagesCalled = [i \in 1..(batch_start + Cardinality(Launched)) |-> i]
            /\ \A i \in Launched : \A j \in 1..(i - 1) : j \in Launched)
    /\ [][(pc = "gather" /\ pc' = "gather" /\ batch_start' # batch_start)
             => /\ batch_start' = batch_start + 2
                /\ \A i \in 1..Len(tasks) : tasks[i].st \in {"returned", "raised"}
                /\ calls' = calls]_vars
    /\ [][pc = "done" => (pc' = "done" /\ calls' = calls)]_vars

\* the second batch of a three-page scan is in flight: pages 1 and 2 were
\* requested, answered and collected, the request for page 3 is outstanding
C19_Witness ==
    /\ pc = "gather"
    /\ Len(images) = 3
    /\ batch_start = 2
    /\ Len(tasks) = 1
    /\ tasks[1].st = "calling"
    /\ PagesCalled = <<1, 2, 3>>
    /\ Len(collected) = 2

\* the tasks of the batch at hand whose request is outstanding
Outstanding == {i \in 1..Len(tasks) : tasks[i].st = "calling"}

\* C20: the page extractions of one batch run concurrently: neither task of
\* a batch waits for the other's AI call to return before issuing its own,
\* so that the calls of both pages are outstanding at the same time.  A task
\* that issues its request does so while no task of its batch has been
\* answered yet.
C20_BatchRunsConcurrently ==
    [][(pc = "gather" /\ Len(tasks) = 2 /\ Len(calls') > Len(calls))
           => \A j \in 1..Len(tasks) : tasks[j].st \in {"pending", "calling"}]_vars

\* what holds instead: at most one AI call is outstanding at any time, and
\* the second task of a batch is launched only after the first has settled
NeverTwoOutstanding ==
    /\ Cardinality(Outstanding) <= 1
    /\ \A i \in Outstanding : \A j \in 1..(i - 1) : tasks[j].st \in {"returned", "raised"}

\* every task of the batch at hand has ended
BatchSettled ==
    /\ pc = "gather"
    /\ \A i \in 1..Len(tasks) : tasks[i].st \in {"returned", "raised"}

\* one task of a batch of two failed and the other returned a record
OneFailedOneReturned ==
    /\ BatchSettled
    /\ Len(tasks) = 2
    /\ \E i, j \in 1..2 : tasks[i].st = "raised" /\ tasks[j].st = "returned"

\* the record of the task of the batch that returned one
ReturnedRecord == tasks[CHOOSE j \in 1..Len(tasks) : tasks[j].st = "returned"].val

\* C21: a failure of one task of a batch (its request fails or times out)
\* affects only that task.  A task fails only when its own request ends
\* without a usable answer; and where one task of a batch failed and the
\* other returned a record, the results of the batch, unless the batch
\* timeout ran out, are looked at as usual: the record is collected and
\* checked, a good record stops the run with a result, and otherwise the
\* next batch is processed while pages remain.
C21_FailureIsolated ==
    /\ [][\A i \in 1..Len(tasks) :
             (pc = "gather" /\ pc' = "gather" /\ batch_start' = batch_start
              /\ tasks[i].st # "raised" /\ tasks'[i].st = "raised")
                => /\ tasks[i].st = "calling"
                   /\ ~(ai_response'.ok /\ ai_response'.content.some)
                   /\ \A j \in 1..Len(tasks) : j # i => tasks'[j] = tasks[j]]_vars
    /\ [][(OneFailedOneReturned /\ timeouts' = timeouts)
             => /\ collected' = Append(collected, ReturnedRecord)
                /\ SatisfiesIsGood(ReturnedRecord)
                      => (pc' = "done" /\ ret'.kind = "return")
                /\ (~SatisfiesIsGood(ReturnedRecord) /\ ~IsGoodRaises(ReturnedRecord))
                      => IF PagesRemain
                         THEN /\ pc' = "gather"
                              /\ batch_start' = batch_start + 2
                              /\ all_results' = Append(all_results, ReturnedRecord)
                         ELSE pc' = "done" /\ ret'.kind = "return"]_vars

\* three pages: one page of the first batch failed, the record of the other
\* was collected and was not good, the second batch was processed and its
\* page gave the good record that ended the run
C21_Witness ==
    /\ pc = "done"
    /\ timeouts = <<>>
    /\ Len(images) = 3
    /\ PagesCalled = <<1, 2, 3>>
    /\ Len(collected) = 2
    /\ ~SatisfiesIsGood(collected[1])
    /\ SatisfiesIsGood(collected[2])
    /\ ret.kind = "return"

\* the record is among the collected ones
IsCollected(rec, recs) == \E k \in 1..Len(recs) : recs[k] = rec

\* C22: when a batch reaches its batch timeout only its unfinished tasks
\* are abandoned and the pipeline is not aborted: the records of the tasks
\* of the batch that had finished are collected, the records of the earlier
\* batches are kept, and the run goes on to the next batch while pages
\* remain.
C22_BatchTimeoutKeepsFinished ==
    [][(pc = "gather" /\ timeouts' # timeouts)
          => /\ \A i \in 1..Len(tasks) :
                   tasks[i].st = "returned" => IsCollected(tasks[i].val, collected')
             /\ \A k \in 1..Len(collected) : IsCollected(collected[k], collected')
             /\ PagesRemain => (pc' = "gather" /\ batch_start' = batch_start + 2
                                /\ all_results' = all_results)]_vars

\* the run is on the sequential path
OnSequential == pc \in {"sequential", "seq_wait"}

\* the latest request ended without a usable answer: the page task raised
RequestFailed(a) == ~(a.ok /\ a.content.some)

\* C23: the sequential fallback.  It starts with an empty collection and at
\* page 1, whatever the parallel path had collected; no task of a batch
\* exists beside it and a request is sent only while none is outstanding;
\* each request is for the page at hand and the pages are taken in order, one
\* further at a time; a page whose request fails is skipped, nothing is
\* collected for it and the next page is taken; and a record that satisfies
\* is_good ends the path, so that no later page is attempted.
C23_SequentialFallback ==
    /\ [](OnSequential => (tasks = <<>> /\ seq_page \in 1..Len(images)))
    /\ [][(~OnSequential /\ OnSequential')
             => (pc' = "sequential" /\ all_results' = <<>> /\ seq_page' = 1
                 /\ calls' = calls)]_vars
    /\ [][(OnSequential /\ calls' # calls)
             => /\ pc = "sequential" /\ pc' = "seq_wait"
                /\ calls' = Append(calls, [op |-> "vision", page |-> seq_page,
                                           sent |-> <<>>])]_vars
    /\ [][(pc = "seq_wait" /\ pc' # "seq_wait")
             => /\ pc' = "done" \/ (pc' = "sequential" /\ seq_page' = seq_page + 1)
                /\ pc' = "done" =>
                      \/ seq_page = Len(images)
                      \/ /\ collected' # collected
                         /\ SatisfiesIsGood(collected'[Len(collected')])
                /\ RequestFailed(ai_response') =>
                      /\ collected' = collected
                      /\ pc' = "sequential" => all_results' = all_results
                /\ ~RequestFailed(ai_response') =>
                      /\ Len(collected') = Len(collected) + 1
                      /\ SatisfiesIsGood(collected'[Len(collected')]) => pc' = "done"
                      /\ pc' = "sequential" =>
                            all_results' = Append(all_results,
                                                  collected'[Len(collected')])]_vars

\* two pages: the parallel path had collected a record when it raised; the
\* sequential path started over, skipped page 1, whose request failed, and
\* stopped on the good record of page 2, which alone makes the result
C23_Witness ==
    /\ pc = "done"
    /\ timeouts = <<>>
    /\ Len(images) = 2
    /\ PagesCalled = <<1, 2, 1, 2>>
    /\ Len(collected) = 2
    /\ IsGoodRaises(collected[1])
    /\ SatisfiesIsGood(collected[2])
    /\ all_results = <<collected[2]>>
    /\ ret = [kind |-> "return", val |-> collected[2], err |-> <<>>]

(***************************************************************************)
(* Termination and the order of the states of a run (Spec).                *)
(***************************************************************************)
\* the state of the orchestrator a position of the run belongs to; combining
\* is part of the step that ends a path, so Combine and Done are one here.
\* "File" is the route of a file that is not a PDF, outside the orchestrator.
Phase(p) ==
    CASE p = "start" -> "Start"
      [] p = "pdf" -> "Dispatch"
      [] p \in {"file", "file_wait"} -> "File"
      [] p \in {"text", "text_wait"} -> "TextPath"
      [] p = "images" -> "ImagePath"
      [] p = "gather" -> "ParallelBatch"
      [] p \in {"sequential", "seq_wait"} -> "SequentialFallback"
      [] p = "done" -> "Done"
      [] OTHER -> "Idle"

\* into and beside the orchestrator
OuterEdges ==
    {<<"Start", "Dispatch">>, <<"Start", "File">>, <<"File", "Done">>}

\* Dispatch -> TextPath | ImagePath -> ParallelBatch -> [SequentialFallback]
\* -> Combine -> Done
StatedEdges ==
    {<<"Dispatch", "TextPath">>, <<"Dispatch", "ImagePath">>,
     <<"TextPath", "Done">>,
     <<"ImagePath", "ParallelBatch">>,
     <<"ParallelBatch", "SequentialFallback">>, <<"ParallelBatch", "Done">>,
     <<"SequentialFallback", "Done">>}

\* the ways to Done that skip the paths: a PDF that cannot be opened or has
\* no pages, a PDF none of whose pages renders
DirectEdges == {<<"Dispatch", "Done">>, <<"ImagePath", "Done">>}

\* the step stays in its state or follows one of the edges
MovesAlong(edges) ==
    Phase(pc') = Phase(pc) \/ <<Phase(pc), Phase(pc')>> \in edges

\* what a task of the batch at hand still has to do: send its request, get
\* the answer, have its result looked at
TaskSteps(t) ==
    IF t.st = "pending" THEN 3 ELSE IF t.st = "calling" THEN 2 ELSE 1

RECURSIVE SumTaskSteps(_)
SumTaskSteps(ts) ==
    IF ts = <<>> THEN 0 ELSE TaskSteps(Head(ts)) + SumTaskSteps(Tail(ts))

\* a bound on the steps the run can still take: it is 0 in Done and every
\* step lowers it
StepsLeft ==
    LET n == Len(images)
    IN  CASE pc = "start" -> 1000
          [] pc = "pdf" -> 900
          [] pc = "images" -> 800
          [] pc = "gather" ->
                500 + SumTaskSteps(tasks) + 3 * (n - batch_start - Len(tasks))
          [] pc = "sequential" -> 2 * (n - seq_page) + 2
          [] pc = "seq_wait" -> 2 * (n - seq_page) + 1
          [] pc \in {"file", "text"} -> 2
          [] pc \in {"file_wait", "text_wait"} -> 1
          [] OTHER -> 0

\* ENABLED Next, written as the disjunction of its parts
CanStep ==
    \/ ENABLED (Dispatch \/ FileCall \/ ProcessPdf \/ TextCall
                  \/ ExtractFromImages \/ SeqCall \/ BatchTimeout)
    \/ ENABLED (\E i \in 1..batch_size : i <= Len(tasks) /\ TaskCall(i))
    \/ ENABLED (\E i \in 1..batch_size : i <= Len(tasks) /\ TaskReturn(i))
    \/ ENABLED (FileReturn \/ TextReturn \/ SeqReturn \/ EvaluateBatch)

\* the run terminates in Done with a record, provided every step that can be
\* taken (a request that ends among them) is taken: until Done a step can be
\* taken, and no run takes steps for ever
Terminates ==
    /\ []((pc = "done" /\ ret.kind = "return") \/ (pc # "done" /\ CanStep))
    /\ [][StepsLeft' < StepsLeft /\ StepsLeft' >= 0]_vars

\* C24 as stated: every run terminates in Done with a record, provided each
\* AI call ends, and visits states only along the edges Dispatch -> TextPath
\* | ImagePath -> ParallelBatch -> [SequentialFallback] -> Combine -> Done,
\* never returning to ParallelBatch after SequentialFallback and never
\* leaving Done.
C24_AsStated ==
    /\ Terminates
    /\ [][MovesAlong(OuterEdges \cup StatedEdges)]_vars
    /\ [][pc = "done" => pc' = "done"]_vars

\* C24, amended: every run terminates in Done with a record, provided each
\* AI call ends, and visits states only along the stated edges and the two
\* direct edges Dispatch -> Done and ImagePath -> Done, never returning to
\* ParallelBatch after SequentialFallback and never leaving Done: once in
\* Done the run and its record stay as they are.
C24_TerminatesAlongEdges ==
    /\ Terminates
    /\ [][MovesAlong(OuterEdges \cup StatedEdges \cup DirectEdges)]_vars
    /\ [][pc = "done" => (pc' = "done" /\ ret' = ret)]_vars
    /\ [][OnSequential => pc' # "gather"]_vars

\* a run that went through ParallelBatch and SequentialFallback is in Done
\* with a record
C24_Witness ==
    /\ pc = "done"
    /\ ret.kind = "return"
    /\ Len(images) = 3
    /\ PagesCalled = <<1, 2, 3, 1, 2, 3>>
    /\ collected # <<>>

(***************************************************************************)
(* The scorer on the records the parser returns (Spec).                    *)
(***************************************************************************)

\* the records the parser returned to the tasks of the batch at hand
ParsedByBatch == {tasks[i].val : i \in {j \in 1..Len(tasks) : tasks[j].st = "returned"}}

\* C25: score and is_good are total on parser output: for every record the
\* parser returned for a page, a required field that holds null (a non-string
\* value) included, _calculate_completeness_score and _is_good_result return
\* a value without raising.
C25_ScoreTotalOnParserOutput ==
    \A rec \in ParsedByBatch :
        /\ _calculate_completeness_score(rec).kind = "return"
        /\ _is_good_result(rec).kind = "return"

(***************************************************************************)
(* The document endpoints: api/v1/documents.py.                            *)
(*                                                                         *)
(* The handlers are coroutines of one event loop: a handler runs alone     *)
(* from one suspension to the next.  The queries, the commits, the         *)
(* download from storage and the activity logger block, they never         *)
(* suspend: the only place where a run can be suspended is its await of    *)
(* process_document.  A query reads the committed row; a commit stores the *)
(* changes of the session or raises and stores none of them.               *)
(***************************************************************************)
RATE_LIMIT_SECONDS == 5

\* the documents uploaded in a run of the service
MaxDocuments == 2

\* the seconds the clock runs on
MaxTicks == 5

UserIds == {1, 2}

\* the reading of the clock at the start: time.time() is far above the limit
Epoch == RATE_LIMIT_SECONDS

NoData == [some |-> FALSE, val |-> EmptyDict]
Data(extracted_data) == [some |-> TRUE, val |-> extracted_data]

\* the row upload_document commits: Document(...) with the column defaults
Document(user_id) ==
    [user_id |-> user_id,
     extraction_status |-> "pending",
     extracted_data |-> NoData,
     patient_first_name |-> Null,
     patient_last_name |-> Null,
     patient_dob |-> Null]

\* the truth value of a str or of None
Truthy(value) == value.t = "str" /\ value.s # <<>>

\* the test the two handlers make before anything else: the row is answered
\* from / skipped as already processed
AlreadyProcessed(document) ==
    /\ document.extraction_status = "completed"
    /\ document.extracted_data.some
    /\ DOMAIN document.extracted_data.val # {}
    /\ Truthy(document.patient_first_name)
    /\ Truthy(document.patient_last_name)
    /\ Truthy(document.patient_dob)

\* a test that never finds a row in "processing"
NeverProcessing(document) == FALSE

\* if document.extraction_status == "processing"
IsProcessing(document) == document.extraction_status = "processing"

\* a limiter that admits one second early
RateLimitedShort(current_time, last_request_time) ==
    current_time - last_request_time < RATE_LIMIT_SECONDS - 1

\* if current_time - last_request_time < RATE_LIMIT_SECONDS
RateLimited(current_time, last_request_time) ==
    current_time - last_request_time < RATE_LIMIT_SECONDS

SetProcessing(document) == [document EXCEPT !.extraction_status = "processing"]

SetCompleted(document, extracted_data) ==
    [document EXCEPT
        !.patient_first_name = Get(extracted_data, "patient_first_name", Null),
        !.patient_last_name = Get(extracted_data, "patient_last_name", Null),
        !.patient_dob = Get(extracted_data, "patient_dob", Null),
        !.extracted_data = Data(extracted_data),
        !.extraction_status = "completed"]

SetFailed(document) == [document EXCEPT !.extraction_status = "failed"]

\* records process_document returns: all fields found, a fallback record, a
\* record the parser passed on with a null
CompleteRecord ==
    [k \in Keys |->
        IF k = "patient_first_name" THEN Str(<<"Jane">>)
        ELSE IF k = "patient_last_name" THEN Str(<<"Doe">>)
        ELSE IF k = "patient_dob" THEN Str(<<"1990-01-01">>)
        ELSE IF k = "confidence" THEN Str(<<"high">>)
        ELSE Str(<<>>)]

PipelineRecords ==
    {CompleteRecord,
     _get_fallback_result(<<"PDF has no pages">>),
     [CompleteRecord EXCEPT !["patient_first_name"] = Null]}

\* what goes wrong in a stretch of a handler: nothing; the commit of the
\* status raises; the download finds no file; the activity logger raises;
\* and with each, whether the commit of "failed" in the except clause raises
\* too
Faults(kinds) == {[what |-> "none", handler_ok |-> TRUE]}
                 \cup [what : kinds, handler_ok : BOOLEAN]

\* an extraction run that has not ended: the upload's background task
\* ("bg") or a manual extract request ("manual"); pc "queued" (a background
\* task not yet started) or "pipeline" (suspended in process_document)
ExtractionRun(kind, document_id, at) ==
    [kind |-> kind, doc |-> document_id, pc |-> at]

\* how a stretch of a handler ends: the row as stored, where the run stands
\* ("done": it has ended), its answer (of a manual request, or that the task
\* skipped), whether it stored the time of the request, whether it committed
\* "completed" / "failed"
Stretch(row, at, resp, admitted, completed, failed) ==
    [row |-> row, pc |-> at, resp |-> resp, admitted |-> admitted,
     completed |-> completed, failed |-> failed]

\* process_document_with_ai up to its await (lines 200-220); the except
\* clause of lines 245-253 when the commit of "processing" raises
process_document_with_ai(document, fault) ==
    IF AlreadyProcessed(document)
    THEN Stretch(document, "done", "skipped", FALSE, FALSE, FALSE)
    ELSE IF IsProcessing(document)
    THEN Stretch(document, "done", "skipped_processing", FALSE, FALSE, FALSE)
    ELSE IF fault.what # "commit"
    THEN Stretch(SetProcessing(document), "pipeline", "none", FALSE, FALSE, FALSE)
    ELSE IF fault.handler_ok
    THEN Stretch(SetFailed(document), "done", "none", FALSE, FALSE, TRUE)
    ELSE Stretch(document, "done", "none", FALSE, FALSE, FALSE)

\* process_document_with_ai from the return of process_document on (lines
\* 222-253): the record is stored with "completed", the activity is logged;
\* an exception of either goes to the except clause, which stores "failed"
\* or, its commit raising too, rolls back
process_document_with_ai_stored(document, extracted_data, fault) ==
    LET commit_ok == fault.what # "commit"
        stored == IF commit_ok THEN SetCompleted(document, extracted_data)
                  ELSE document
    IN  IF fault.what = "none"
        THEN Stretch(stored, "done", "none", FALSE, TRUE, FALSE)
        ELSE IF fault.handler_ok
        THEN Stretch(SetFailed(stored), "done", "none", FALSE, commit_ok, TRUE)
        ELSE Stretch(stored, "done", "none", FALSE, commit_ok, FALSE)

\* extract_document_data up to its await (lines 352-398): cached, being
\* processed, rate limited; then the time is stored, "processing" is
\* committed (a commit that raises ends in the outer except clause: 500) and
\* the file is downloaded (no file: HTTPException inside the inner try, the
\* inner except clause stores "failed"; its commit raising: 500)
extract_document_data(document, last_request_time, current_time, fault) ==
    IF AlreadyProcessed(document)
    THEN Stretch(document, "done", "cached", FALSE, FALSE, FALSE)
    ELSE IF IsProcessing(document)
    THEN Stretch(document, "done", "processing", FALSE, FALSE, FALSE)
    ELSE IF RateLimited(current_time, last_request_time)
    THEN Stretch(document, "done", "rate_limited", FALSE, FALSE, FALSE)
    ELSE IF fault.what = "commit"
    THEN Stretch(document, "done", "http500", TRUE, FALSE, FALSE)
    ELSE IF fault.what # "download"
    THEN Stretch(SetProcessing(document), "pipeline", "none", TRUE, FALSE, FALSE)
    ELSE IF fault.handler_ok
    THEN Stretch(SetFailed(document), "done", "failed", TRUE, FALSE, TRUE)
    ELSE Stretch(SetProcessing(document), "done", "http500", TRUE, FALSE, FALSE)

\* extract_document_data from the return of process_document on (lines
\* 404-433)
extract_document_data_stored(document, extracted_data, fault) ==
    LET commit_ok == fault.what # "commit"
        stored == IF commit_ok THEN SetCompleted(document, extracted_data)
                  ELSE document
    IN  IF fault.what = "none"
        THEN Stretch(stored, "done", "success", FALSE, TRUE, FALSE)
        ELSE IF fault.handler_ok
        THEN Stretch(SetFailed(stored), "done", "failed", FALSE, commit_ok, TRUE)
        ELSE Stretch(stored, "done", "http500", FALSE, commit_ok, FALSE)

InitService ==
    /\ documents = <<>>
    /\ requests = <<>>
    /\ extraction_rate_limit = [u \in UserIds |-> 0]
    /\ now = Epoch
    /\ invoked = [u \in UserIds |-> <<>>]
    /\ ParserIdle
    /\ ScorerIdle
    /\ RunIdle

\* the handler of a run from the return of process_document on
Stored(kind, document, extracted_data, fault) ==
    IF kind = "bg"
    THEN process_document_with_ai_stored(document, extracted_data, fault)
    ELSE extract_document_data_stored(document, extracted_data, fault)

\* the sequence without its i-th element
Without(seq, i) == [j \in 1..(Len(seq) - 1) |-> IF j < i THEN seq[j] ELSE seq[j + 1]]

\* upload_document: the row is committed, the background task is added
\* (the users are numbered in the order of their first upload)
Upload(u) ==
    /\ Len(documents) < MaxDocuments
    /\ \A v \in UserIds : v < u => \E d \in DOMAIN documents : documents[d].user_id = v
    /\ documents' = Append(documents, Document(u))
    /\ requests' = Append(requests,
          ExtractionRun("bg", Len(documents) + 1, "queued"))
    /\ UNCHANGED <<extraction_rate_limit, now, invoked>>
    /\ UNCHANGED <<parserVars, scorerVars, inputVars, runVars>>

\* the background task of an upload starts
BackgroundTask(i) ==
    /\ requests[i].pc = "queued"
    /\ \E fault \in Faults({"commit"}) :
          LET d == requests[i].doc
              s == process_document_with_ai(documents[d], fault)
          IN  /\ documents' = [documents EXCEPT ![d] = s.row]
              /\ requests' = IF s.pc = "done" THEN Without(requests, i)
                             ELSE [requests EXCEPT ![i].pc = s.pc]
    /\ UNCHANGED <<extraction_rate_limit, now, invoked>>
    /\ UNCHANGED <<parserVars, scorerVars, inputVars, runVars>>

\* POST /documents/{document_id}/extract of a user: 404 for a document that
\* is not the user's, else extract_document_data up to its await
ManualExtract(u, d) ==
    /\ IF d > Len(documents) \/ documents[d].user_id # u
       THEN UNCHANGED <<documents, requests, extraction_rate_limit, invoked>>
       ELSE \E fault \in Faults({"commit", "download"}) :
               LET s == extract_document_data(documents[d], extraction_rate_limit[u],
                                              now, fault)
               IN  /\ documents' = [documents EXCEPT ![d] = s.row]
                   /\ IF s.pc = "done"
                      THEN UNCHANGED <<requests, invoked>>
                      ELSE /\ requests' = Append(requests,
                                 ExtractionRun("manual", d, s.pc))
                           /\ invoked' = [invoked EXCEPT ![u] = Append(@, now)]
                   /\ extraction_rate_limit' =
                         IF s.admitted
                         THEN [extraction_rate_limit EXCEPT ![u] = now]
                         ELSE extraction_rate_limit
    /\ UNCHANGED now
    /\ UNCHANGED <<parserVars, scorerVars, inputVars, runVars>>

\* process_document returns to the run that awaits it; the handler runs on
\* to its end
PipelineReturns(i) ==
    /\ requests[i].pc = "pipeline"
    /\ \E extracted_data \in PipelineRecords :
       \E fault \in Faults({"commit", "log"}) :
          LET d == requests[i].doc
              s == Stored(requests[i].kind, documents[d], extracted_data, fault)
          IN  /\ documents' = [documents EXCEPT ![d] = s.row]
              /\ requests' = Without(requests, i)
    /\ UNCHANGED <<extraction_rate_limit, now, invoked>>
    /\ UNCHANGED <<parserVars, scorerVars, inputVars, runVars>>

\* a second passes
Tick ==
    /\ now < Epoch + MaxTicks
    /\ now' = now + 1
    /\ UNCHANGED <<documents, requests, extraction_rate_limit, invoked>>
    /\ UNCHANGED <<parserVars, scorerVars, inputVars, runVars>>

NextService ==
    \/ \E u \in UserIds : Upload(u)
    \/ \E i \in DOMAIN requests : BackgroundTask(i)
    \/ \E u \in UserIds : \E d \in 1..MaxDocuments : ManualExtract(u, d)
    \/ \E i \in DOMAIN requests : PipelineReturns(i)
    \/ Tick

SpecService == InitService /\ [][NextService]_vars

(***************************************************************************)
(* Properties of the extraction runs of the service (SpecService).         *)
(***************************************************************************)

\* the runs on a document that are between setting its status to
\* "processing" and setting it to "completed" or "failed"
ActiveIn(reqs, d) == {i \in DOMAIN reqs : reqs[i].doc = d /\ reqs[i].pc = "pipeline"}

\* C26: for any document at most one extraction run is active at a time,
\* under every interleaving of background tasks and manual requests, and
\* process_document is never called for a document whose status is already
\* "processing".
C26_OneRunPerDocument ==
    /\ [](\A d \in DOMAIN documents : Cardinality(ActiveIn(requests, d)) <= 1)
    /\ [][\A d \in DOMAIN documents :
            Cardinality(ActiveIn(requests', d)) > Cardinality(ActiveIn(requests, d))
                => documents[d].extraction_status # "processing"]_vars

\* a run is inside process_document for a document while the background
\* task of the same document has not started yet
C26_Witness ==
    \E i, j \in DOMAIN requests :
        /\ requests[i].doc = requests[j].doc
        /\ requests[i].pc = "pipeline"
        /\ requests[j].pc = "queued"

\* C27: no document is left in "processing" after its run has ended: a
\* document whose status is "processing" has a run that is still to set it to
\* "completed" or "failed".
C27_NoDocumentLeftProcessing ==
    \A d \in DOMAIN documents :
        documents[d].extraction_status = "processing" => ActiveIn(requests, d) # {}

\* C28: a stored row is answered from the cache, and skipped by the
\* background task, only if none of its three patient fields is "Not Found".
C28_CachedOnlyWithValues ==
    \A d \in DOMAIN documents :
        AlreadyProcessed(documents[d]) =>
            /\ documents[d].patient_first_name # NotFound
            /\ documents[d].patient_last_name # NotFound
            /\ documents[d].patient_dob # NotFound

\* C29: a run that has committed "completed" with the record never
\* afterwards commits "failed" or answers that the extraction failed,
\* whatever process_document returns to it and whatever goes wrong after.
C29_CompletedStaysCompleted ==
    \A i \in DOMAIN requests :
        requests[i].pc = "pipeline" =>
            \A extracted_data \in PipelineRecords :
            \A fault \in Faults({"commit", "log"}) :
                LET s == Stored(requests[i].kind, documents[requests[i].doc],
                                extracted_data, fault)
                IN  s.completed => (~s.failed /\ s.resp \notin {"failed", "http500"})

\* C30: per user, any two manual requests that called process_document are
\* at least RATE_LIMIT_SECONDS apart, across the user's documents; and the
\* time of the user's last request is stored only by a request that is not
\* answered as rate limited, as being processed or from the cache: when it
\* changes the user is not within the limit and has a document that is
\* neither processed nor being processed.
C30_RateLimitPerUser ==
    /\ [](\A u \in UserIds : \A i, j \in DOMAIN invoked[u] :
            i < j => invoked[u][j] - invoked[u][i] >= RATE_LIMIT_SECONDS)
    /\ [][\A u \in UserIds :
            extraction_rate_limit'[u] # extraction_rate_limit[u] =>
                /\ now - extraction_rate_limit[u] >= RATE_LIMIT_SECONDS
                /\ extraction_rate_limit'[u] = now
                /\ \E d \in DOMAIN documents :
                      /\ documents[d].user_id = u
                      /\ ~AlreadyProcessed(documents[d])
                      /\ documents[d].extraction_status # "processing"]_vars

\* a user has called process_document twice, another user once and less
\* than RATE_LIMIT_SECONDS after the first user's first call
C30_Witness ==
    /\ Len(invoked[1]) = 2
    /\ Len(invoked[2]) = 1
    /\ invoked[2][1] - invoked[1][1] < RATE_LIMIT_SECONDS
    /\ invoked[2][1] >= invoked[1][1]

====
